---- MODULE Spec2Model ----
(***************************************************************************)
(* Claim lifecycle store, approval policy and approval/export orchestrator *)
(* of the fact-check server (src/src/server.mjs, src/src/policyEngine.mjs, *)
(* the output package service and the render service), and the ingest,     *)
(* transcription and research pipeline (src/src/pipeline.mjs) with the      *)
(* server's run control and event stream.                                  *)
(*                                                                         *)
(* Encodings.  null / undefined integers (approvedVersion, claimVersion,   *)
(* expectedVersion, packageId, renderJobId) are NullInt; every real value  *)
(* of those fields is >= 1.  null strings are "null".  confidence and the  *)
(* tag thresholds are in hundredths (0.6 -> 60).  A textualRating is the   *)
(* set of the keywords of ratingBucket that the lowercased text includes.  *)
(***************************************************************************)
EXTENDS Integers, Sequences, FiniteSets, TLC

\* ------------------------------------------------------------------ bounds
MaxVersion == 9
MaxJobs == 2
MaxPackages == 2
MaxRuns == 2
MaxIngestAttempts == 2
MaxChunks == 2
MaxClaims == 3
MaxBacklog == 12
MaxSeq == 28
MaxReconnects == 4

ClaimIds == {"c1"}
Subscribers == {"s1"}
RunIds == 1..MaxRuns

NullInt == 0
NoClaim == [exists |-> FALSE]
NoPackage == [exists |-> FALSE]

IsInteger(x) == x # NullInt

\* ------------------------------------------------------------ policyEngine
ClaimTypeTags == {"numeric_factual", "simple_policy", "other"}

TagThreshold(tag) ==
  CASE tag = "numeric_factual" -> 60
    [] tag = "simple_policy" -> 75
    [] OTHER -> 80

normalizeTag(tag) == IF tag \in ClaimTypeTags THEN tag ELSE "other"

RatingFalse == {"false"}
RatingMostlyTrue == {"true", "mostly true"}
RatingHalfTrue == {"true", "half true"}
RatingNone == {}

ratingBucket(rating) ==
  IF rating = {} THEN "unverified"
  ELSE IF rating \cap {"false", "incorrect", "pants on fire"} # {} THEN "false"
  ELSE IF rating \cap {"misleading", "mixed", "partly false", "half true", "mostly false"} # {}
    THEN "misleading"
  ELSE IF rating \cap {"true", "correct", "mostly true"} # {} THEN "supported"
  ELSE "unverified"

SourceKey(source) == IF source.publisher # "" THEN source.publisher ELSE source.url

countIndependentSources(sources) ==
  Cardinality({SourceKey(sources[i]) : i \in DOMAIN sources} \ {""})

hasConflictingEvidence(sources) ==
  Cardinality({ratingBucket(sources[i].textualRating) : i \in DOMAIN sources} \ {"unverified"}) > 1

\* an economic claim is insufficient without sources even when FRED matched
evidenceStatusForClaim_FredIgnored(claim, independentSourceCount, evidenceConflict) ==
  IF claim.status \in {"pending_research", "researching"} THEN "researching"
  ELSE IF claim.googleEvidenceState = "error" THEN "provider_degraded"
  ELSE IF claim.claimCategory = "economic" /\ claim.fredEvidenceState = "error"
    THEN "provider_degraded"
  ELSE IF independentSourceCount < 1 THEN "insufficient"
  ELSE IF evidenceConflict THEN "conflicted"
  ELSE "sufficient"

evidenceStatusForClaim(claim, independentSourceCount, evidenceConflict) ==
  IF claim.status \in {"pending_research", "researching"} THEN "researching"
  ELSE IF claim.googleEvidenceState = "error" THEN "provider_degraded"
  ELSE IF claim.claimCategory = "economic" /\ claim.fredEvidenceState = "error"
    THEN "provider_degraded"
  ELSE IF claim.claimCategory = "economic" /\ claim.fredEvidenceState # "matched"
          /\ independentSourceCount < 1
    THEN "insufficient"
  ELSE IF claim.claimCategory # "economic" /\ independentSourceCount < 1 THEN "insufficient"
  ELSE IF evidenceConflict THEN "conflicted"
  ELSE "sufficient"

reasonFromEvidenceStatus(status) ==
  CASE status = "researching" -> "still_researching"
    [] status = "provider_degraded" -> "provider_degraded"
    [] status = "insufficient" -> "insufficient_sources"
    [] status = "conflicted" -> "conflicted_sources"
    [] OTHER -> "null"

\* the confidence threshold checked before the evidence status
approvalBlockReasonFor_ThresholdFirst(claim, evidenceStatus, threshold) ==
  IF claim.outputApprovalState = "rejected" THEN "rejected_locked"
  ELSE IF claim.status # "researched"
    THEN IF claim.status \in {"pending_research", "researching"}
           THEN "still_researching" ELSE "not_researched"
  ELSE IF claim.confidence < threshold THEN "below_threshold"
  ELSE reasonFromEvidenceStatus(evidenceStatus)

approvalBlockReasonFor(claim, evidenceStatus, threshold) ==
  LET byState ==
        IF claim.outputApprovalState = "rejected" THEN "rejected_locked"
        ELSE IF claim.status # "researched"
          THEN IF claim.status \in {"pending_research", "researching"}
                 THEN "still_researching" ELSE "not_researched"
        ELSE reasonFromEvidenceStatus(evidenceStatus)
  IN IF byState = "null" /\ claim.confidence < threshold THEN "below_threshold" ELSE byState

\* an export gate that does not ask for the approval
exportBlockReasonFor_IgnoresApproval(claim, approvalBlockReason) == approvalBlockReason

exportBlockReasonFor(claim, approvalBlockReason) ==
  IF approvalBlockReason = "null" /\ claim.outputApprovalState # "approved"
    THEN "not_approved" ELSE approvalBlockReason

PolicyResult(claim, tag, independentSourceCount, evidenceConflict, evidenceStatus, approvalBlockReason) ==
  [claimTypeTag |-> tag,
   policyThreshold |-> TagThreshold(tag),
   independentSourceCount |-> independentSourceCount,
   evidenceConflict |-> evidenceConflict,
   evidenceStatus |-> evidenceStatus,
   approvalEligibility |-> (approvalBlockReason = "null"),
   approvalBlockReason |-> approvalBlockReason,
   exportEligibility |-> (exportBlockReasonFor(claim, approvalBlockReason) = "null"),
   exportBlockReason |-> exportBlockReasonFor(claim, approvalBlockReason)]

PolicyFromEvidence(claim, tag, independentSourceCount, evidenceConflict, evidenceStatus) ==
  PolicyResult(claim, tag, independentSourceCount, evidenceConflict, evidenceStatus,
               approvalBlockReasonFor(claim, evidenceStatus, TagThreshold(tag)))

PolicyFromSources(claim, tag, independentSourceCount, evidenceConflict) ==
  PolicyFromEvidence(claim, tag, independentSourceCount, evidenceConflict,
                     evidenceStatusForClaim(claim, independentSourceCount, evidenceConflict))

evaluateClaimPolicy(claim) ==
  PolicyFromSources(claim, normalizeTag(claim.claimTypeTag),
                    countIndependentSources(claim.sources),
                    hasConflictingEvidence(claim.sources))

\* ------------------------------------------------------------------ server
\* {...claim, ...policy}
MergePolicy(claim, p) ==
     [claim EXCEPT !.claimTypeTag = p.claimTypeTag,
                   !.policyThreshold = p.policyThreshold,
                   !.independentSourceCount = p.independentSourceCount,
                   !.evidenceConflict = p.evidenceConflict,
                   !.evidenceStatus = p.evidenceStatus,
                   !.approvalEligibility = p.approvalEligibility,
                   !.approvalBlockReason = p.approvalBlockReason,
                   !.exportEligibility = p.exportEligibility,
                   !.exportBlockReason = p.exportBlockReason]

withPolicy(claim) == MergePolicy(claim, evaluateClaimPolicy(claim))

nextClaimVersion_SameVersion(claim) == IF claim.version >= 1 THEN claim.version ELSE 1

nextClaimVersion(claim) == IF claim.version >= 1 THEN claim.version + 1 ELSE 1

Coalesce(a, b) == IF a # "null" THEN a ELSE b
CoalesceInt(a, b) == IF a # NullInt THEN a ELSE b

\* an event as handed to emitEvent; fields an event type does not carry are null
BaseEvent(type, claimId) ==
  [type |-> type, claimId |-> claimId, runId |-> NullInt,
   status |-> "null", confidence |-> NullInt, sources |-> <<>>,
   claimCategory |-> "null", claimTypeTag |-> "null",
   googleEvidenceState |-> "null", fredEvidenceState |-> "null",
   approvedVersion |-> NullInt, claimVersion |-> NullInt,
   packageId |-> NullInt, renderJobId |-> NullInt, artifactUrl |-> "null"]

\* the object `{claimId, claim, detectedAt}` claim.updated falls back to
MissingClaim ==
  [exists |-> TRUE, runId |-> NullInt,
   status |-> "null", confidence |-> NullInt, sources |-> <<>>,
   claimCategory |-> "null", claimTypeTag |-> "null",
   googleEvidenceState |-> "null", fredEvidenceState |-> "null",
   outputApprovalState |-> "null", approvedAt |-> "null", approvedVersion |-> NullInt,
   rejectedAt |-> "null",
   outputPackageStatus |-> "null", outputPackageId |-> NullInt,
   renderStatus |-> "null", renderJobId |-> NullInt, artifactUrl |-> "null",
   version |-> NullInt,
   policyThreshold |-> NullInt, independentSourceCount |-> 0, evidenceConflict |-> FALSE,
   evidenceStatus |-> "null", approvalEligibility |-> FALSE, approvalBlockReason |-> "null",
   exportEligibility |-> FALSE, exportBlockReason |-> "null"]

DetectedRow(event) ==
  [MissingClaim EXCEPT
    !.runId = event.runId,
    !.status = event.status,
    !.confidence = event.confidence,
    !.claimCategory = Coalesce(event.claimCategory, "general"),
    !.claimTypeTag = Coalesce(event.claimTypeTag, "other"),
    !.googleEvidenceState = "none",
    !.fredEvidenceState =
       IF event.claimCategory = "economic" THEN "ambiguous" ELSE "not_applicable",
    !.sources = <<>>,
    !.outputApprovalState = "pending",
    !.outputPackageStatus = "none",
    !.outputPackageId = NullInt,
    !.renderStatus = "none",
    !.renderJobId = NullInt,
    !.artifactUrl = "null",
    !.approvedAt = "null",
    !.approvedVersion = NullInt,
    !.rejectedAt = "null",
    !.version = 1]

ResearchingRow(existing) ==
  [existing EXCEPT
    !.status = "researching",
    !.version = CoalesceInt(existing.version, 1) + 1]

NextApprovalStateOnUpdate_Keeps(existing) == Coalesce(existing.outputApprovalState, "pending")

NextApprovalStateOnUpdate(existing) ==
  IF existing.outputApprovalState = "approved" THEN "pending"
  ELSE Coalesce(existing.outputApprovalState, "pending")

UpdatedRow(existing, event) ==
  LET wasApproved == existing.outputApprovalState = "approved"
      resetGeneratedArtifacts == wasApproved
  IN [existing EXCEPT
    !.runId = CoalesceInt(event.runId, existing.runId),
    !.status = event.status,
    !.confidence = event.confidence,
    !.sources = event.sources,
    !.claimCategory = Coalesce(event.claimCategory, Coalesce(existing.claimCategory, "general")),
    !.claimTypeTag = Coalesce(event.claimTypeTag, Coalesce(existing.claimTypeTag, "other")),
    !.googleEvidenceState =
       Coalesce(event.googleEvidenceState, Coalesce(existing.googleEvidenceState, "none")),
    !.fredEvidenceState =
       Coalesce(event.fredEvidenceState, Coalesce(existing.fredEvidenceState, "not_applicable")),
    !.outputApprovalState = NextApprovalStateOnUpdate(existing),
    !.approvedAt = IF resetGeneratedArtifacts THEN "null" ELSE existing.approvedAt,
    !.approvedVersion = IF resetGeneratedArtifacts THEN NullInt ELSE existing.approvedVersion,
    !.outputPackageStatus =
       IF resetGeneratedArtifacts THEN "none" ELSE Coalesce(existing.outputPackageStatus, "none"),
    !.outputPackageId = IF resetGeneratedArtifacts THEN NullInt ELSE existing.outputPackageId,
    !.renderStatus =
       IF resetGeneratedArtifacts THEN "none" ELSE Coalesce(existing.renderStatus, "none"),
    !.renderJobId = IF resetGeneratedArtifacts THEN NullInt ELSE existing.renderJobId,
    !.artifactUrl = IF resetGeneratedArtifacts THEN "null" ELSE existing.artifactUrl,
    !.version = CoalesceInt(existing.version, 1) + 1]

ApprovedRow(existing, event) ==
  [existing EXCEPT
    !.outputApprovalState = "approved",
    !.approvedAt = "set",
    !.approvedVersion = CoalesceInt(event.approvedVersion, nextClaimVersion(existing)),
    !.rejectedAt = "null",
    !.version = CoalesceInt(existing.version, 1) + 1]

RejectedRow(existing, event) ==
  [existing EXCEPT
    !.outputApprovalState = "rejected",
    !.approvedAt = "null",
    !.approvedVersion = NullInt,
    !.rejectedAt = "set",
    !.version = CoalesceInt(existing.version, 1) + 1]

PackageEventTypes ==
  {"claim.output_package_queued", "claim.output_package_ready", "claim.output_package_failed"}
RenderEventTypes == {"claim.render_queued", "claim.render_ready", "claim.render_failed"}

OutputStatusOf(type) ==
  CASE type \in {"claim.output_package_queued", "claim.render_queued"} -> "queued"
    [] type \in {"claim.output_package_ready", "claim.render_ready"} -> "ready"
    [] OTHER -> "failed"

VersionGuardPasses_Always(existing, event) == TRUE

\* the guards shared by the package and render branches
VersionGuardPasses(existing, event) ==
  ~(IsInteger(event.claimVersion) /\ IsInteger(existing.approvedVersion)
      /\ event.claimVersion # existing.approvedVersion)

RenderJobGuardPasses(existing, event) ==
  ~(existing.renderJobId # NullInt /\ event.renderJobId # NullInt
      /\ existing.renderJobId # event.renderJobId)

OutputEventApplies(existing, event) ==
  /\ existing.outputApprovalState = "approved"
  /\ VersionGuardPasses(existing, event)
  /\ (event.type \in {"claim.render_ready", "claim.render_failed"}
        => RenderJobGuardPasses(existing, event))

PackageRow(existing, event) ==
  [existing EXCEPT
    !.outputPackageStatus = OutputStatusOf(event.type),
    !.outputPackageId = CoalesceInt(event.packageId, existing.outputPackageId),
    !.version = CoalesceInt(existing.version, 1) + 1]

RenderRow(existing, event) ==
  [existing EXCEPT
    !.renderStatus = OutputStatusOf(event.type),
    !.renderJobId = CoalesceInt(event.renderJobId, existing.renderJobId),
    !.artifactUrl =
       IF event.type = "claim.render_ready"
         THEN Coalesce(event.artifactUrl, existing.artifactUrl) ELSE existing.artifactUrl,
    !.version = CoalesceInt(existing.version, 1) + 1]

\* whether updateClaimState reaches the claims.set of the event's branch
EventApplies(existing, event) ==
  CASE event.type \in {"claim.detected", "claim.updated"} -> TRUE
    [] event.type \in {"claim.researching", "claim.output_approved", "claim.output_rejected"} ->
         existing.exists
    [] event.type \in PackageEventTypes \cup RenderEventTypes ->
         existing.exists /\ OutputEventApplies(existing, event)
    [] OTHER -> FALSE

\* the object the branch hands to withPolicy
NextRow(existing, event) ==
  CASE event.type = "claim.detected" -> DetectedRow(event)
    [] event.type = "claim.researching" -> ResearchingRow(existing)
    [] event.type = "claim.updated" ->
         UpdatedRow(IF existing.exists THEN existing ELSE MissingClaim, event)
    [] event.type = "claim.output_approved" -> ApprovedRow(existing, event)
    [] event.type = "claim.output_rejected" -> RejectedRow(existing, event)
    [] event.type \in PackageEventTypes -> PackageRow(existing, event)
    [] OTHER -> RenderRow(existing, event)

\* a store that keeps the policy fields the snapshot had before the event
updateClaimState_StalePolicy(cs, event) ==
  IF EventApplies(cs[event.claimId], event)
    THEN [cs EXCEPT ![event.claimId] = NextRow(cs[event.claimId], event)]
    ELSE cs

\* updateClaimState past its run filter: the claim map after the event
updateClaimState(cs, event) ==
  IF EventApplies(cs[event.claimId], event)
    THEN [cs EXCEPT ![event.claimId] = withPolicy(NextRow(cs[event.claimId], event))]
    ELSE cs

\* the outgoing (enriched) event: the event plus the snapshot embed; prior* and
\* applied record the snapshot the event met and whether it changed the map
Outgoing(event, before, after) ==
  [type |-> event.type, claimId |-> event.claimId,
   claimVersion |-> event.claimVersion,
   renderJobId |-> event.renderJobId,
   packageId |-> event.packageId,
   hasSnapshot |-> after[event.claimId].exists,
   version |-> IF after[event.claimId].exists THEN after[event.claimId].version ELSE NullInt,
   approvedVersion |->
     IF after[event.claimId].exists THEN after[event.claimId].approvedVersion
     ELSE event.approvedVersion,
   outputApprovalState |->
     IF after[event.claimId].exists THEN after[event.claimId].outputApprovalState ELSE "null",
   priorApprovalState |->
     IF before[event.claimId].exists THEN before[event.claimId].outputApprovalState ELSE "null",
   priorApprovedVersion |->
     IF before[event.claimId].exists THEN before[event.claimId].approvedVersion ELSE NullInt,
   applied |-> (after # before), runId |-> event.runId]

\* emitEvent on a store state st = [claims, out]: update the claim map, then
\* append the enriched event to what has been broadcast
Broadcast(st, event, after) ==
  [st EXCEPT !.claims = after,
             !.out = Append(st.out, Outgoing(event, st.claims, after))]

\* a filter that lets the claim events of every run through
runFilterDrops_Never(current, event) == FALSE

\* the guard at the head of updateClaimState: a claim event of another run
\* than the current one is ignored (every event of the store is a claim.* event)
runFilterDrops(current, event) ==
  current # NullInt /\ event.runId # NullInt /\ event.runId # current

\* runId: event.runId ?? existing.runId ?? currentRunId ?? null of claim.updated
FillRunId(cs, current, event) ==
  IF event.type = "claim.updated" /\ cs[event.claimId].exists
     /\ cs[event.claimId].runId = NullInt
    THEN [cs EXCEPT ![event.claimId].runId = current]
    ELSE cs

updateClaimStateOfRun(cs, current, event) ==
  IF runFilterDrops(current, event) THEN cs
  ELSE FillRunId(updateClaimState(cs, event), current, event)

emitEvent(st, event) ==
  Broadcast(st, event, updateClaimStateOfRun(st.claims, st.currentRunId, event))

\* ---------------------------------------------------- outputPackageService
\* buildTakumiPayload only slices strings and maps the sources array; every
\* snapshot the store holds has a string claim text and an array of sources
buildTakumiPayloadThrows(claim) == FALSE

packageClaimVersion(version) == IF version > 0 THEN version ELSE NullInt

queueForClaim(st, claimId, version) ==
  LET claimVersion == packageClaimVersion(version)
      previous == st.packagesByClaim[claimId]
      reusePackageId == previous.exists /\ previous.claimVersion = claimVersion
      packageId == IF reusePackageId THEN previous.packageId ELSE st.nextPackageId
      final == IF buildTakumiPayloadThrows(st.claims[claimId]) THEN "failed" ELSE "ready"
      queuedEvent == [BaseEvent("claim.output_package_queued", claimId) EXCEPT
                        !.packageId = packageId, !.claimVersion = claimVersion]
      finalEvent == [BaseEvent("claim.output_package_" \o final, claimId) EXCEPT
                        !.packageId = packageId, !.claimVersion = claimVersion]
      stored == [st EXCEPT
                   !.packagesByClaim[claimId] =
                      [exists |-> TRUE, packageId |-> packageId,
                       claimVersion |-> claimVersion, status |-> final],
                   !.nextPackageId = IF reusePackageId THEN @ ELSE @ + 1]
  IN emitEvent(emitEvent(stored, queuedEvent), finalEvent)

\* ------------------------------------------------------------ renderService
MaxAttempts == 3

normalizeClaimVersion(version) == IF version > 0 THEN version ELSE 1

\* claimId:version:templateId; the template is always fc-lower-third-v1.
\* nonce is NullInt for the base key and the forced job's own nonce otherwise
buildIdempotencyKey(claimId, version) == <<claimId, normalizeClaimVersion(version), NullInt>>

IdempotencyLookup(st, key) ==
  IF \E p \in st.jobsByIdempotencyKey : p[1] = key
    THEN (CHOOSE p \in st.jobsByIdempotencyKey : p[1] = key)[2]
    ELSE NullInt

storeJob(st, jobId, job) ==
  [st EXCEPT
     !.jobsByClaimId[job.claimId] = jobId,
     !.jobsByRenderJobId =
        IF jobId \in DOMAIN @ THEN [@ EXCEPT ![jobId] = job] ELSE Append(@, job),
     !.jobsByIdempotencyKey =
        {p \in @ : p[1] # job.idempotencyKey} \cup {<<job.idempotencyKey, jobId>>}]

\* processJob up to its first await: the job goes to rendering and the first
\* renderer call is in flight
processJobStart(st, claimId, jobId) ==
  IF jobId \notin DOMAIN st.jobsByRenderJobId THEN st
  ELSE LET current == st.jobsByRenderJobId[jobId]
       IN IF current.claimId # claimId \/ current.status # "queued" THEN st
          ELSE IF st.jobsByClaimId[claimId] # jobId THEN st
          ELSE storeJob(st, jobId, [current EXCEPT !.status = "rendering",
                                                   !.proc = "calling", !.attempt = 1])

RenderQueuedEvent(job, jobId) ==
  [BaseEvent("claim.render_queued", job.claimId) EXCEPT
     !.renderJobId = jobId, !.claimVersion = job.claimVersion]

\* jobs.set, the claim.render_queued event and the unawaited processJob
StartJob(st, jobId, job) ==
  processJobStart(emitEvent(storeJob(st, jobId, job), RenderQueuedEvent(job, jobId)),
                  job.claimId, jobId)

\* a render service that never consults its idempotency index
queueRender_AlwaysNewJob(st, claimId, version, force) ==
  LET newJobId == Len(st.jobsByRenderJobId) + 1
      claimVersion == normalizeClaimVersion(version)
  IN StartJob(st, newJobId,
              [claimId |-> claimId, claimVersion |-> claimVersion,
               idempotencyKey |-> IF force THEN <<claimId, claimVersion, newJobId>>
                                  ELSE buildIdempotencyKey(claimId, version),
               status |-> "queued", attempts |-> 0, artifactUrl |-> "null",
               proc |-> "none", attempt |-> 0])

\* the renderJobId of the job queueRender returns
queuedRenderJobId(st, claimId, version, force) ==
  LET existingJobId ==
        IF force THEN NullInt
        ELSE IdempotencyLookup(st, buildIdempotencyKey(claimId, version))
  IN IF existingJobId # NullInt THEN existingJobId ELSE Len(st.jobsByRenderJobId) + 1

queueRender(st, claimId, version, force) ==
  LET claimVersion == normalizeClaimVersion(version)
      baseIdempotencyKey == buildIdempotencyKey(claimId, version)
      newJobId == Len(st.jobsByRenderJobId) + 1
      idempotencyKey ==
        IF force THEN <<claimId, claimVersion, newJobId>> ELSE baseIdempotencyKey
      existingJobId == IF force THEN NullInt ELSE IdempotencyLookup(st, baseIdempotencyKey)
      renderJob == [claimId |-> claimId, claimVersion |-> claimVersion,
                    idempotencyKey |-> idempotencyKey, status |-> "queued",
                    attempts |-> 0, artifactUrl |-> "null",
                    proc |-> "none", attempt |-> 0]
  IN IF existingJobId # NullInt /\ st.jobsByRenderJobId[existingJobId].status # "failed"
       THEN st
     ELSE IF existingJobId # NullInt
       THEN StartJob(st, existingJobId,
                     [st.jobsByRenderJobId[existingJobId] EXCEPT
                        !.claimVersion = claimVersion,
                        !.idempotencyKey = baseIdempotencyKey,
                        !.status = "queued"])
     ELSE StartJob(st, newJobId, renderJob)

\* ------------------------------------------- server: claim action handler
parseExpectedVersion(value) == value

isValidClaimTypeTag(tag) == tag \in {"numeric_factual", "simple_policy", "other"}

Result(st, code, result, blockReason) ==
  [st |-> st, code |-> code, result |-> result, blockReason |-> blockReason]

ClaimEvent(type, claim, claimId) ==
  [BaseEvent(type, claimId) EXCEPT
     !.status = claim.status, !.confidence = claim.confidence, !.sources = claim.sources,
     !.claimCategory = claim.claimCategory, !.claimTypeTag = claim.claimTypeTag,
     !.googleEvidenceState = claim.googleEvidenceState,
     !.fredEvidenceState = claim.fredEvidenceState]

TagOverride_IgnoresApproval(st, req, existing) ==
  IF ~isValidClaimTypeTag(req.tag) THEN Result(st, 400, "failed_invalid_tag", "null")
  ELSE IF ~req.hasReason THEN Result(st, 400, "failed_missing_reason", "null")
  ELSE Result(emitEvent(st, [ClaimEvent("claim.updated", existing, req.claimId) EXCEPT
                               !.claimTypeTag = req.tag]),
              200, "succeeded", "null")

TagOverride(st, req, existing) ==
  IF ~isValidClaimTypeTag(req.tag) THEN Result(st, 400, "failed_invalid_tag", "null")
  ELSE IF ~req.hasReason THEN Result(st, 400, "failed_missing_reason", "null")
  ELSE IF existing.outputApprovalState = "approved"
    THEN Result(st, 409, "failed_approved_locked", "null")
  ELSE Result(emitEvent(st, [ClaimEvent("claim.updated", existing, req.claimId) EXCEPT
                               !.claimTypeTag = req.tag]),
              200, "succeeded", "null")

IntegerOrNull(v) == IF IsInteger(v) THEN v ELSE NullInt

GeneratePackage_PinsCurrentVersion(st, req, existing) ==
  IF ~existing.exportEligibility
    THEN Result(st, 409, "failed_policy", existing.exportBlockReason)
  ELSE Result(queueForClaim(st, req.claimId, existing.version), 200, "succeeded", "null")

GeneratePackage(st, req, existing) ==
  IF ~existing.exportEligibility
    THEN Result(st, 409, "failed_policy", existing.exportBlockReason)
  ELSE IF IntegerOrNull(existing.approvedVersion) = NullInt
    THEN Result(st, 409, "failed_missing_approved_version", "null")
  ELSE Result(queueForClaim(st, req.claimId, IntegerOrNull(existing.approvedVersion)),
              200, "succeeded", "null")

\* render-image once the package for the approved version is at hand
RenderImagePackaged(packaged, req, approvedVersion) ==
  IF packaged.packagesByClaim[req.claimId].status # "ready"
    THEN Result(packaged, 502, "failed_package_generation", "null")
  ELSE Result(queueRender(packaged, req.claimId, approvedVersion, req.force),
              202, "succeeded", "null")

RenderImage(st, req, existing) ==
  LET approvedVersion == IntegerOrNull(existing.approvedVersion)
      currentJobId == st.jobsByClaimId[req.claimId]
      inflight == /\ currentJobId # NullInt
                  /\ st.jobsByRenderJobId[currentJobId].status \in {"queued", "rendering"}
      havePackage == /\ st.packagesByClaim[req.claimId].exists
                     /\ st.packagesByClaim[req.claimId].status = "ready"
  IN IF ~existing.exportEligibility
       THEN Result(st, 409, "failed_policy", existing.exportBlockReason)
     ELSE IF approvedVersion = NullInt
       THEN Result(st, 409, "failed_missing_approved_version", "null")
     ELSE IF ~req.force /\ inflight THEN Result(st, 202, "noop_render_inflight", "null")
     ELSE RenderImagePackaged(
            IF havePackage THEN st ELSE queueForClaim(st, req.claimId, approvedVersion),
            req, approvedVersion)

ApprovedEvent(existing, claimId) ==
  [ClaimEvent("claim.output_approved", existing, claimId)
     EXCEPT !.approvedVersion = nextClaimVersion(existing)]

\* approve-output once the package for the pinned version has been generated
ApprovePackaged(packaged, req, pinned) ==
  IF packaged.packagesByClaim[req.claimId].status # "ready"
    THEN Result(packaged, 502, "failed_package_generation", "null")
  ELSE Result(queueRender(packaged, req.claimId, pinned, FALSE), 200, "succeeded", "null")

\* approve-output once claim.output_approved has been emitted
ApproveEmitted_PinsOldVersion(approved, req, existing) ==
  ApprovePackaged(queueForClaim(approved, req.claimId, existing.version), req, existing.version)

ApproveEmitted(approved, req, existing) ==
  ApprovePackaged(
    queueForClaim(approved, req.claimId,
                  CoalesceInt(approved.claims[req.claimId].approvedVersion,
                              approved.claims[req.claimId].version)),
    req,
    CoalesceInt(approved.claims[req.claimId].approvedVersion,
                approved.claims[req.claimId].version))

ApproveOutput_SkipsPolicy(st, req, existing) ==
  IF existing.outputApprovalState = "approved"
    THEN Result(st, 200, "noop_already_approved", "null")
  ELSE ApproveEmitted(emitEvent(st, ApprovedEvent(existing, req.claimId)), req, existing)

ApproveOutput(st, req, existing) ==
  IF existing.outputApprovalState = "approved"
    THEN Result(st, 200, "noop_already_approved", "null")
  ELSE IF ~existing.approvalEligibility
    THEN Result(st, 409, "failed_policy", existing.approvalBlockReason)
  ELSE ApproveEmitted(emitEvent(st, ApprovedEvent(existing, req.claimId)), req, existing)

RejectOutput(st, req, existing) ==
  IF existing.outputApprovalState = "rejected"
    THEN Result(st, 200, "noop_already_rejected", "null")
  ELSE Result(emitEvent(st, ClaimEvent("claim.output_rejected", existing, req.claimId)),
              200, "succeeded", "null")

ClaimActions ==
  {"approve-output", "reject-output", "generate-package", "render-image", "tag-override"}

\* the handler from the action dispatch on; existing is withPolicy(claims.get(id))
DispatchClaimAction(st, req, existing) ==
  CASE req.action = "tag-override" -> TagOverride(st, req, existing)
    [] req.action = "generate-package" -> GeneratePackage(st, req, existing)
    [] req.action = "render-image" -> RenderImage(st, req, existing)
    [] req.action = "approve-output" -> ApproveOutput(st, req, existing)
    [] OTHER -> RejectOutput(st, req, existing)

VersionChecked_NoVersionGuard(st, req, existing) ==
  IF parseExpectedVersion(req.expectedVersion) = NullInt
    THEN Result(st, 400, "failed_missing_expected_version", "null")
  ELSE DispatchClaimAction(st, req, existing)

VersionChecked(st, req, existing) ==
  IF parseExpectedVersion(req.expectedVersion) = NullInt
    THEN Result(st, 400, "failed_missing_expected_version", "null")
  ELSE IF parseExpectedVersion(req.expectedVersion) # existing.version
    THEN Result(st, 409, "failed_version_conflict", "null")
  ELSE DispatchClaimAction(st, req, existing)

HandleClaimAction(st, req) ==
  IF ~st.claims[req.claimId].exists THEN Result(st, 404, "failed_not_found", "null")
  ELSE VersionChecked(st, req, withPolicy(st.claims[req.claimId]))

\* -------------------------------------------------------------------- text
\* A text is the sequence of its characters; the only whitespace is " ".
Unmarked(kept) == [i \in DOMAIN kept |-> kept[i].ch]

\* .replace(/\s+/g, ' ')
collapseSpaces(chars) ==
  Unmarked(SelectSeq([i \in DOMAIN chars |->
                       [ch |-> chars[i],
                        keep |-> ~(chars[i] = " " /\ i > 1 /\ chars[i - 1] = " ")]],
                     LAMBDA m : m.keep))

trimStart(chars) == IF chars # <<>> /\ Head(chars) = " " THEN Tail(chars) ELSE chars

\* .trim() of a text whose runs of spaces are already collapsed
trim(chars) ==
  IF trimStart(chars) # <<>> /\ trimStart(chars)[Len(trimStart(chars))] = " "
    THEN SubSeq(trimStart(chars), 1, Len(trimStart(chars)) - 1)
  ELSE trimStart(chars)

normalizeSpaces(chars) == trim(collapseSpaces(chars))

Least(indices) == CHOOSE i \in indices : \A j \in indices : i <= j

\* the first position from `from` on whose character is (inside) or is not in chars
FirstAt(text, from, charset, inside) ==
  IF \E i \in from..Len(text) : (text[i] \in charset) = inside
    THEN Least({i \in from..Len(text) : (text[i] \in charset) = inside})
  ELSE Len(text) + 1

Terminators == {".", "!", "?"}
Closers == {"\"", "'", ")", "]"}

\* one match of /[^.!?]+[.!?]+(?:["')\]]+)?/g that starts at start and has its
\* first terminator at terminator: the position after it
MatchEnd(text, terminator) ==
  FirstAt(text, FirstAt(text, terminator, Terminators, FALSE), Closers, FALSE)

RECURSIVE sentenceMatches(_, _, _)
SentenceFrom(text, start, sentences, consumed) ==
  IF start > Len(text) \/ FirstAt(text, start, Terminators, TRUE) > Len(text)
    THEN [sentences |-> sentences, consumed |-> consumed]
  ELSE sentenceMatches(
         text, MatchEnd(text, FirstAt(text, start, Terminators, TRUE)),
         Append(sentences,
                trim(SubSeq(text, start,
                            MatchEnd(text, FirstAt(text, start, Terminators, TRUE)) - 1))))

\* the exec loop: the next match starts at the first non-terminator from pos on
sentenceMatches(text, pos, sentences) ==
  SentenceFrom(text, FirstAt(text, pos, Terminators, FALSE), sentences, pos - 1)

RECURSIVE join(_)
join(sentences) ==
  IF sentences = <<>> THEN <<>>
  ELSE IF Len(sentences) = 1 THEN sentences[1]
  ELSE sentences[1] \o <<" ">> \o join(Tail(sentences))

SplitResult(normalized, matches) ==
  [completeText |-> trim(join(matches.sentences)),
   carryover |-> trim(SubSeq(normalized, matches.consumed + 1, Len(normalized)))]

splitCompleteSentencesWithCarryover(text) ==
  IF normalizeSpaces(text) = <<>> THEN [completeText |-> <<>>, carryover |-> <<>>]
  ELSE SplitResult(normalizeSpaces(text), sentenceMatches(normalizeSpaces(text), 1, <<>>))

\* ---------------------------------------------------------------- pipeline
\* One record per pipeline instance (createPipeline).  Its events go to onEvent;
\* they are collected in the record's out field during a step.  A transcript is
\* its text after stripLeadingOverlap and the categories of the claims
\* detectClaims finds in it.  An ingest attempt is an entry of the attempts
\* sequence, currentAttempt its index (NullInt for null).

SAMPLE_RATE == 16000
CHANNELS == 1
BYTES_PER_SAMPLE == 2
chunkSeconds == 15
chunkBytes == chunkSeconds * SAMPLE_RATE * CHANNELS * BYTES_PER_SAMPLE
\* toFinitePositiveInt(options.ingestStallTimeoutMs, 45000, 300000), the default
ingestStallTimeoutMs == 45000

Min(a, b) == IF a < b THEN a ELSE b
Max(a, b) == IF a > b THEN a ELSE b

\* Math.max(1, Math.min(10, Number(options.maxResearchConcurrency ?? 3)))
ClampConcurrency(option) == Max(1, Min(10, option))

PipelineEvent(type, runId) ==
  [type |-> type, runId |-> runId, chunkIndex |-> 0, bytes |-> 0, startSec |-> 0,
   endSec |-> 0, claimId |-> NullInt, reason |-> "null", attempt |-> 0, idleMs |-> 0,
   text |-> <<>>]

NewAttempt ==
  [ytdlpExit |-> "none", ffmpegExit |-> "none", processError |-> FALSE,
   closeTimer |-> FALSE, teardownDone |-> FALSE, finalized |-> FALSE,
   ytdlpClosed |-> FALSE, ffmpegClosed |-> FALSE]

createPipeline(runId, reconnectEnabled, maxRetries, concurrencyOption) ==
  [created |-> TRUE, runId |-> runId,
   ingestReconnectEnabled |-> reconnectEnabled, ingestMaxRetries |-> maxRetries,
   maxResearchConcurrency |-> ClampConcurrency(concurrencyOption),
   running |-> FALSE, state |-> "idle",
   bufferedAudio |-> 0, chunkIndex |-> 0, claimIndex |-> 0,
   reconnectAttempt |-> 0, reconnectTimer |-> FALSE, stallWatchdog |-> FALSE,
   finalStopEmitted |-> FALSE, manualStopRequested |-> FALSE,
   currentAttempt |-> NullInt, attempts |-> <<>>, reconnectSuccessPending |-> FALSE,
   transcriptAccumulator |-> <<>>, transcriptFlushTimer |-> FALSE,
   aborted |-> FALSE, transcriptionQueue |-> <<>>, researchQueue |-> <<>>,
   transcribing |-> FALSE, researchInFlight |-> 0,
   recentClaimKeys |-> <<>>,
   calls |-> {}, workers |-> {}, out |-> <<>>]

emit(p, event) == [p EXCEPT !.out = Append(@, event)]

isCurrentAttempt(p, a) == a # NullInt /\ p.currentAttempt = a

teardownAttempt(p, a) ==
  IF a = NullInt \/ p.attempts[a].teardownDone THEN p
  ELSE [p EXCEPT !.attempts[a].teardownDone = TRUE]

TRANSCRIPT_FLUSH_MAX_CHARS == 600

textToEmit(accumulator, force, completeText) ==
  IF force THEN accumulator
  ELSE IF completeText # <<>> THEN completeText
  ELSE IF Len(accumulator) >= TRANSCRIPT_FLUSH_MAX_CHARS THEN accumulator
  ELSE <<>>

\* flushTranscriptSegment of a non-empty accumulator, split being its sentences
FlushSplit(p, force, split) ==
  IF textToEmit(p.transcriptAccumulator, force, split.completeText) = <<>> THEN p
  ELSE emit([p EXCEPT !.transcriptAccumulator =
                        IF force \/ Len(@) >= TRANSCRIPT_FLUSH_MAX_CHARS
                          THEN <<>> ELSE split.carryover],
            [PipelineEvent("transcript.segment", p.runId) EXCEPT
               !.text = textToEmit(p.transcriptAccumulator, force, split.completeText)])

flushTranscriptSegment(p, force) ==
  IF p.transcriptAccumulator = <<>> THEN p
  ELSE FlushSplit(p, force, splitCompleteSentencesWithCarryover(p.transcriptAccumulator))

classifyAttemptResult(attempt, hint) ==
  IF hint = "process_error" \/ attempt.processError THEN "process_error"
  ELSE IF attempt.ytdlpExit = "zero" /\ attempt.ffmpegExit = "zero" THEN "source_ended"
  ELSE "upstream_exit_nonzero"

finalizeStop_Silent(p, reason) ==
  IF p.finalStopEmitted THEN p
  ELSE [p EXCEPT !.finalStopEmitted = TRUE, !.running = FALSE, !.state = "stopped",
                 !.aborted = TRUE, !.currentAttempt = NullInt]

\* finalizeStop after its guard: flush, clear timers, abort, tear down, stopped
StopNow(p, reason) ==
  emit([teardownAttempt(p, p.currentAttempt) EXCEPT
          !.transcriptFlushTimer = FALSE, !.transcriptAccumulator = <<>>,
          !.reconnectTimer = FALSE, !.stallWatchdog = FALSE,
          !.aborted = TRUE, !.currentAttempt = NullInt,
          !.bufferedAudio = 0, !.transcriptionQueue = <<>>, !.researchQueue = <<>>,
          !.recentClaimKeys = <<>>, !.state = "stopped"],
       [PipelineEvent("pipeline.stopped", p.runId) EXCEPT
          !.reason = reason, !.attempt = p.reconnectAttempt])

finalizeStop(p, reason) ==
  IF p.finalStopEmitted THEN p
  ELSE StopNow(flushTranscriptSegment([p EXCEPT !.finalStopEmitted = TRUE,
                                                !.running = FALSE,
                                                !.state = "stopping"], TRUE),
               reason)

Halted(p) ==
  ~p.running \/ p.manualStopRequested \/ p.state \in {"stopping", "stopped"}

scheduleReconnect_NoBudget(p, resultReason) ==
  IF Halted(p) THEN p
  ELSE emit([p EXCEPT !.reconnectAttempt = @ + 1, !.state = "reconnecting",
                      !.reconnectSuccessPending = TRUE, !.reconnectTimer = TRUE],
            [PipelineEvent("pipeline.reconnect_scheduled", p.runId) EXCEPT
               !.attempt = p.reconnectAttempt + 1, !.reason = resultReason])

scheduleReconnect(p, resultReason) ==
  IF Halted(p) THEN p
  ELSE IF ~p.ingestReconnectEnabled
    THEN finalizeStop(p, IF resultReason = "source_ended" THEN "source_ended"
                         ELSE "upstream_exit_nonzero")
  ELSE IF p.ingestMaxRetries > 0 /\ p.reconnectAttempt + 1 > p.ingestMaxRetries
    THEN finalizeStop([p EXCEPT !.reconnectAttempt = @ + 1], "reconnect_exhausted")
  ELSE emit([p EXCEPT !.reconnectAttempt = @ + 1, !.state = "reconnecting",
                      !.reconnectSuccessPending = TRUE, !.reconnectTimer = TRUE],
            [PipelineEvent("pipeline.reconnect_scheduled", p.runId) EXCEPT
               !.attempt = p.reconnectAttempt + 1, !.reason = resultReason])

\* an attempt end that schedules a reconnect whatever the state of the run
finalizeAttempt_Reschedules(p, a, hint) ==
  IF a = NullInt \/ p.attempts[a].finalized THEN p
  ELSE emit([p EXCEPT !.attempts[a].finalized = TRUE, !.attempts[a].closeTimer = FALSE,
                      !.currentAttempt = IF @ = a THEN NullInt ELSE @,
                      !.reconnectAttempt = @ + 1, !.state = "reconnecting",
                      !.reconnectSuccessPending = TRUE, !.reconnectTimer = TRUE],
            [PipelineEvent("pipeline.reconnect_scheduled", p.runId) EXCEPT
               !.attempt = p.reconnectAttempt + 1])

\* finalizeAttempt after its guard, the attempt marked finalized
AttemptFinalized(p, a, hint) ==
  IF Halted(p) THEN p
  ELSE scheduleReconnect(p, classifyAttemptResult(p.attempts[a], hint))

finalizeAttempt(p, a, hint) ==
  IF a = NullInt \/ p.attempts[a].finalized THEN p
  ELSE AttemptFinalized([p EXCEPT !.attempts[a].finalized = TRUE,
                                  !.attempts[a].closeTimer = FALSE,
                                  !.currentAttempt = IF @ = a THEN NullInt ELSE @],
                        a, hint)

\* onProcessClose once the exit is recorded and logged
CloseRecorded(p, a) ==
  IF p.attempts[a].ytdlpExit # "none" /\ p.attempts[a].ffmpegExit # "none"
    THEN finalizeAttempt(p, a, "null")
  ELSE [p EXCEPT !.attempts[a].closeTimer = TRUE]

onProcessClose(p, a, stage, code) ==
  IF a = NullInt \/ p.attempts[a].finalized THEN p
  ELSE CloseRecorded(
         emit(IF stage = "yt-dlp" THEN [p EXCEPT !.attempts[a].ytdlpExit = code]
              ELSE [p EXCEPT !.attempts[a].ffmpegExit = code],
              PipelineEvent("pipeline.log", p.runId)),
         a)

onProcessError(p, a, stage) ==
  IF a = NullInt \/ p.attempts[a].finalized THEN p
  ELSE finalizeAttempt(
         teardownAttempt(emit([p EXCEPT !.attempts[a].processError = TRUE],
                              PipelineEvent("pipeline.error", p.runId)), a),
         a, "process_error")

SpawnOutcomes == {"spawned", "spawn_throws"}

\* startIngestAttempt after its guard and the transcript flush
AttemptSpawn(p, spawnOutcome) ==
  IF spawnOutcome # "spawned"
    THEN finalizeStop(emit(p, PipelineEvent("pipeline.error", p.runId)), "process_error")
  ELSE [p EXCEPT !.attempts = Append(@, NewAttempt),
                 !.currentAttempt = Len(p.attempts) + 1,
                 !.state = "running"]

startIngestAttempt(p, spawnOutcome) ==
  IF ~p.running \/ p.state \in {"stopping", "stopped"} THEN p
  ELSE AttemptSpawn(flushTranscriptSegment([p EXCEPT !.reconnectTimer = FALSE,
                                                     !.bufferedAudio = 0], TRUE),
                    spawnOutcome)

isAborted(p) == ~p.running \/ p.aborted

\* -------------------------------------------------- pipeline: research queue
ResearchEvent(type, p, claimId) ==
  [PipelineEvent(type, p.runId) EXCEPT !.claimId = claimId]

\* researchClaim up to its first await (the fact-check lookup)
researchClaimStart(p, payload) ==
  IF isAborted(p) THEN [p EXCEPT !.researchInFlight = Max(0, @ - 1)]
  ELSE emit([p EXCEPT !.workers = @ \cup {[claimId |-> payload.claimId,
                                          claimCategory |-> payload.claimCategory,
                                          at |-> "factcheck"]}],
            ResearchEvent("claim.researching", p, payload.claimId))

RECURSIVE drainResearchLoop(_)
drainResearchLoop(p) ==
  IF p.researchInFlight < p.maxResearchConcurrency /\ p.researchQueue # <<>>
    THEN drainResearchLoop(
           researchClaimStart([p EXCEPT !.researchQueue = Tail(@),
                                        !.researchInFlight = @ + 1],
                              Head(p.researchQueue)))
  ELSE p

drainResearchQueue_NoLimit(p) ==
  IF ~p.running \/ p.researchQueue = <<>> THEN p
  ELSE researchClaimStart([p EXCEPT !.researchQueue = Tail(@),
                                    !.researchInFlight = @ + 1],
                          Head(p.researchQueue))

drainResearchQueue(p) == IF ~p.running THEN p ELSE drainResearchLoop(p)

queueResearchClaim(p, payload) ==
  drainResearchQueue(
    IF Len(p.researchQueue) + 1 >= 25 /\ (Len(p.researchQueue) + 1) % 10 = 0
      THEN emit([p EXCEPT !.researchQueue = Append(@, payload)],
                PipelineEvent("pipeline.log", p.runId))
    ELSE [p EXCEPT !.researchQueue = Append(@, payload)])

\* a finishing worker that releases its slot without looking at the queue
WorkerFinished_NoDrain(p, worker) ==
  [p EXCEPT !.workers = @ \ {worker}, !.researchInFlight = Max(0, @ - 1)]

\* the finally block of a research worker
WorkerFinished(p, worker) ==
  IF p.running /\ p.researchQueue # <<>>
    THEN drainResearchQueue([p EXCEPT !.workers = @ \ {worker},
                                      !.researchInFlight = Max(0, @ - 1)])
  ELSE [p EXCEPT !.workers = @ \ {worker}, !.researchInFlight = Max(0, @ - 1)]

\* the provider call researchClaim awaits after the one at `at`, "emit" when
\* the verifier was the last
NextProviderCall(worker) ==
  CASE worker.at = "factcheck" /\ worker.claimCategory = "economic" -> "fred"
    [] worker.at = "factcheck" /\ worker.claimCategory \in {"political", "legislative"} ->
         "congress"
    [] worker.at \in {"factcheck", "fred", "congress"} -> "verify"
    [] OTHER -> "emit"

ProviderReturned_NoAbortCheck(p, worker) ==
  IF NextProviderCall(worker) = "emit"
    THEN WorkerFinished(emit(p, ResearchEvent("claim.updated", p, worker.claimId)), worker)
  ELSE [p EXCEPT !.workers = (@ \ {worker})
                    \cup {[worker EXCEPT !.at = NextProviderCall(worker)]}]

\* researchClaim resumes after an awaited provider call returned
ProviderReturned(p, worker) ==
  IF isAborted(p) THEN WorkerFinished(p, worker)
  ELSE IF NextProviderCall(worker) = "emit"
    THEN WorkerFinished(emit(p, ResearchEvent("claim.updated", p, worker.claimId)), worker)
  ELSE [p EXCEPT !.workers = (@ \ {worker})
                    \cup {[worker EXCEPT !.at = NextProviderCall(worker)]}]

\* the claim.updated of researchClaim's catch block; confidence in hundredths
ResearchErrorEvent(p, worker) ==
  [type |-> "claim.updated", runId |-> p.runId, chunkIndex |-> 0, bytes |-> 0,
   startSec |-> 0, endSec |-> 0, claimId |-> worker.claimId, reason |-> "null",
   attempt |-> 0, idleMs |-> 0,
   status |-> "needs_manual_research", verdict |-> "unverified", confidence |-> 0,
   googleEvidenceState |-> "error",
   fredEvidenceState |->
     IF worker.claimCategory = "economic" THEN "error" ELSE "not_applicable",
   congressEvidenceState |->
     IF worker.claimCategory \in {"political", "legislative"} THEN "error"
     ELSE "not_applicable"]

\* a worker that swallows the error without reporting the claim
ProviderThrew_Silent(p, worker) == WorkerFinished(p, worker)

\* researchClaim's catch block
ProviderThrew(p, worker) ==
  IF isAborted(p) THEN WorkerFinished(p, worker)
  ELSE WorkerFinished(emit(p, ResearchErrorEvent(p, worker)), worker)

\* ---------------------------------------------- pipeline: transcription queue
\* the while loop of drainTranscriptionQueue up to its next await, or its
\* finally block when the loop ends
drainTranscriptionLoop(p) ==
  IF p.running /\ p.transcriptionQueue # <<>>
    THEN [p EXCEPT !.transcriptionQueue = Tail(@),
                   !.calls = @ \cup {Head(p.transcriptionQueue).chunkIndex}]
  ELSE [p EXCEPT !.transcribing = FALSE]

drainTranscriptionQueue(p) ==
  IF p.transcribing THEN p ELSE drainTranscriptionLoop([p EXCEPT !.transcribing = TRUE])

queueChunk_SkipsIndex(p, bytes, chunkNo) ==
  drainTranscriptionQueue(
    emit([p EXCEPT !.transcriptionQueue =
                      Append(@, [chunkIndex |-> chunkNo + 1, bytes |-> bytes])],
         [PipelineEvent("audio.chunk", p.runId) EXCEPT
            !.chunkIndex = chunkNo + 1, !.bytes = bytes,
            !.startSec = chunkNo * chunkSeconds,
            !.endSec = chunkNo * chunkSeconds + chunkSeconds]))

queueChunk(p, bytes, chunkNo) ==
  drainTranscriptionQueue(
    emit([p EXCEPT !.transcriptionQueue =
                      Append(@, [chunkIndex |-> chunkNo, bytes |-> bytes])],
         [PipelineEvent("audio.chunk", p.runId) EXCEPT
            !.chunkIndex = chunkNo, !.bytes = bytes,
            !.startSec = chunkNo * chunkSeconds,
            !.endSec = chunkNo * chunkSeconds + chunkSeconds]))

RECURSIVE chunkLoop(_)
chunkLoop(p) ==
  IF p.bufferedAudio >= chunkBytes
    THEN chunkLoop([queueChunk([p EXCEPT !.bufferedAudio = @ - chunkBytes],
                               chunkBytes, p.chunkIndex)
                      EXCEPT !.chunkIndex = @ + 1])
  ELSE p

handleAudioData(p, size) == chunkLoop([p EXCEPT !.bufferedAudio = @ + size])

ReconnectSucceeded_KeepsPending(p) ==
  IF p.reconnectSuccessPending
    THEN emit([p EXCEPT !.reconnectAttempt = 0],
              [PipelineEvent("pipeline.reconnect_succeeded", p.runId) EXCEPT
                 !.attempt = p.reconnectAttempt])
  ELSE p

\* the reconnectSuccessPending branch of the ffmpeg stdout handler
ReconnectSucceeded(p) ==
  IF p.reconnectSuccessPending
    THEN emit([p EXCEPT !.reconnectSuccessPending = FALSE, !.reconnectAttempt = 0],
              [PipelineEvent("pipeline.reconnect_succeeded", p.runId) EXCEPT
                 !.attempt = p.reconnectAttempt])
  ELSE p

\* ffmpeg stdout 'data' handler of attempt a
onAudioData(p, a, size) ==
  IF ~isCurrentAttempt(p, a) \/ ~p.running THEN p
  ELSE handleAudioData(ReconnectSucceeded(p), size)

\* stderr 'data' handler of attempt a
onStderrData(p, a) ==
  IF ~isCurrentAttempt(p, a) THEN p ELSE emit(p, PipelineEvent("pipeline.log", p.runId))

\* the claims loop of handleTranscriptionChunk
RECURSIVE detectLoop(_, _)
detectLoop(p, categories) ==
  IF categories = <<>> THEN p
  ELSE detectLoop(
         queueResearchClaim(
           emit([p EXCEPT !.claimIndex = @ + 1],
                ResearchEvent("claim.detected", p, p.claimIndex + 1)),
           [claimId |-> p.claimIndex + 1, claimCategory |-> Head(categories)]),
         Tail(categories))

Accumulate(accumulator, text) == normalizeSpaces(accumulator \o <<" ">> \o text)

\* handleTranscriptionChunk after transcribePcmChunk returned
TranscriptHandled(p, transcript) ==
  IF transcript.text = <<>> THEN p
  ELSE detectLoop(
         [flushTranscriptSegment(
            [p EXCEPT !.transcriptAccumulator = Accumulate(@, transcript.text)], FALSE)
            EXCEPT !.transcriptFlushTimer = TRUE],
         transcript.claims)

TranscriptionFailed_NoAbortCheck(p, chunkNo) ==
  emit(p, [PipelineEvent("transcript.error", p.runId) EXCEPT !.chunkIndex = chunkNo])

\* handleTranscriptionChunk's catch block
TranscriptionFailed(p, chunkNo) ==
  IF isAborted(p) THEN p
  ELSE emit(p, [PipelineEvent("transcript.error", p.runId) EXCEPT !.chunkIndex = chunkNo])

\* the transcript flush timer
onTranscriptFlushTimer(p) ==
  flushTranscriptSegment([p EXCEPT !.transcriptFlushTimer = FALSE], FALSE)

\* ------------------------------------------------- pipeline: stall watchdog
\* the mutex reset of the watchdog
MutexReset(p) ==
  IF Len(p.transcriptionQueue) > 10 /\ p.transcribing
    THEN drainTranscriptionQueue(
           [emit(p, PipelineEvent("pipeline.warning", p.runId)) EXCEPT
              !.transcribing = FALSE])
  ELSE p

QueueDepthMonitor(p) ==
  MutexReset(IF Len(p.transcriptionQueue) > 3 /\ p.transcribing
               THEN emit(p, PipelineEvent("pipeline.warning", p.runId))
             ELSE p)

\* the watchdog found the current attempt idle for ingestStallTimeoutMs
AttemptStalled(p, a, idleMs) ==
  QueueDepthMonitor(
    finalizeAttempt(
      teardownAttempt(emit([p EXCEPT !.attempts[a].processError = TRUE],
                           [PipelineEvent("pipeline.ingest_stalled", p.runId) EXCEPT
                              !.idleMs = idleMs, !.attempt = p.reconnectAttempt]), a),
      a, "process_error"))

\* a watchdog that lets an attempt idle for exactly the threshold live on
onStallWatchdog_AboveThreshold(p, idleMs) ==
  IF ~p.running \/ p.state # "running" THEN p
  ELSE IF p.currentAttempt = NullInt \/ p.attempts[p.currentAttempt].finalized THEN p
  ELSE IF idleMs <= ingestStallTimeoutMs THEN p
  ELSE AttemptStalled(p, p.currentAttempt, idleMs)

\* one tick of the stall watchdog interval; idleMs = Date.now() - lastAudioAt
onStallWatchdog(p, idleMs) ==
  IF ~p.running \/ p.state # "running" THEN p
  ELSE IF p.currentAttempt = NullInt \/ p.attempts[p.currentAttempt].finalized THEN p
  ELSE IF idleMs < ingestStallTimeoutMs THEN p
  ELSE AttemptStalled(p, p.currentAttempt, idleMs)

\* the reconnect delay timer
onReconnectTimer(p, spawnOutcome) ==
  IF Halted([p EXCEPT !.reconnectTimer = FALSE]) THEN [p EXCEPT !.reconnectTimer = FALSE]
  ELSE startIngestAttempt(
         emit([p EXCEPT !.reconnectTimer = FALSE],
              [PipelineEvent("pipeline.reconnect_started", p.runId) EXCEPT
                 !.attempt = p.reconnectAttempt]),
         spawnOutcome)

\* pipeline.start() past its three throwing guards
start(p, spawnOutcome) ==
  startIngestAttempt(
    [emit([p EXCEPT !.running = TRUE, !.state = "running", !.finalStopEmitted = FALSE,
                    !.manualStopRequested = FALSE, !.reconnectAttempt = 0,
                    !.reconnectSuccessPending = FALSE, !.transcriptAccumulator = <<>>,
                    !.recentClaimKeys = <<>>],
          PipelineEvent("pipeline.started", p.runId))
       EXCEPT !.stallWatchdog = TRUE],
    spawnOutcome)

stop(p, reason) ==
  finalizeStop(
    IF reason \in {"manual_stop", "user_requested_stop"}
      THEN [p EXCEPT !.manualStopRequested = TRUE] ELSE p,
    reason)

\* ------------------------------------------------------------------- state
VARIABLES
  claims,               \* server.mjs `claims` map: claimId -> snapshot
  packagesByClaim,      \* output package service store
  nextPackageId,        \* next fresh packageId (randomUUID)
  jobsByClaimId,        \* render service: claimId -> latest renderJobId
  jobsByRenderJobId,    \* render service: renderJobId -> job (with its processJob position)
  jobsByIdempotencyKey, \* render service: set of <<key, renderJobId>>
  research,             \* pipeline: position of the claim's research worker
  claimPayload,         \* pipeline: the claimPayload the worker was queued with
  emitted,              \* the events emitEvent broadcast during the last step, in order
  outBefore,            \* per claim, the last event broadcast before the last step
  request,              \* the request or callback handled by the last step, if any
  response,             \* its response
  approvalVersion,      \* per claim, the snapshot version right after its last approval
  history,              \* per claim, the lifecycle event types broadcast so far
  pipelines,            \* runId -> the pipeline instance createPipeline returned
  activePipeline,       \* server.mjs `activePipeline`: its runId, NullInt for null
  currentRunId,         \* server.mjs `currentRunId`
  pipeEmitted,          \* the events the pipeline emitted during the last step, in order
  runLog,               \* per run, what its events so far amount to
  eventSeq,             \* server.mjs `eventSeq`
  eventHistory,         \* server.mjs `eventHistory`: the seq values it holds
  sseClients,           \* server.mjs `sseClients`
  received              \* per subscriber, the seq values written to its connection

vars == <<claims, packagesByClaim, nextPackageId, jobsByClaimId, jobsByRenderJobId,
          jobsByIdempotencyKey, research, claimPayload, emitted, outBefore, request,
          response, approvalVersion, history, pipelines, activePipeline, currentRunId,
          pipeEmitted, runLog, eventSeq, eventHistory, sseClients, received>>

pipeVars == <<pipelines, activePipeline, currentRunId, pipeEmitted, runLog>>
sseVars == <<eventSeq, eventHistory, sseClients, received>>

NoEvent == [type |-> "none", version |-> NullInt]
NoRequest == [action |-> "none"]
NoResponse == [code |-> NullInt]

Store ==
  [claims |-> claims, out |-> <<>>, currentRunId |-> currentRunId,
   packagesByClaim |-> packagesByClaim, nextPackageId |-> nextPackageId,
   jobsByClaimId |-> jobsByClaimId, jobsByRenderJobId |-> jobsByRenderJobId,
   jobsByIdempotencyKey |-> jobsByIdempotencyKey]

Bounded(st) ==
  /\ \A c \in ClaimIds : st.claims[c].exists => st.claims[c].version <= MaxVersion
  /\ Len(st.jobsByRenderJobId) <= MaxJobs
  /\ st.nextPackageId <= MaxPackages + 1

LastFor(c, events, default) ==
  LET idx == {i \in DOMAIN events : events[i].claimId = c}
  IN IF idx = {} THEN default
     ELSE LET last == CHOOSE i \in idx : \A j \in idx : j <= i
          IN [type |-> events[last].type, version |-> events[last].version]

LifecycleTypes(c, events) ==
  {events[i].type : i \in {j \in DOMAIN events : events[j].claimId = c}}
    \cap {"claim.detected", "claim.researching", "claim.updated"}

NoPipeline == [created |-> FALSE, running |-> FALSE]
NoRunLog == [started |-> FALSE, stopped |-> 0, chunks |-> 0, researching |-> 0,
             reconnect |-> "none", scheduledInRow |-> 0, nowMs |-> 0,
             lastDetectedAt |-> <<>>]

\* install the store state a step produced
Commit(st) ==
  /\ Bounded(st)
  /\ claims' = st.claims
  /\ packagesByClaim' = st.packagesByClaim
  /\ nextPackageId' = st.nextPackageId
  /\ jobsByClaimId' = st.jobsByClaimId
  /\ jobsByRenderJobId' = st.jobsByRenderJobId
  /\ jobsByIdempotencyKey' = st.jobsByIdempotencyKey
  /\ emitted' = st.out
  /\ outBefore' = [c \in ClaimIds |-> LastFor(c, emitted, outBefore[c])]
  /\ history' = [c \in ClaimIds |-> history[c] \cup LifecycleTypes(c, st.out)]
  /\ UNCHANGED <<pipeVars, sseVars>>

Init ==
  /\ claims = [c \in ClaimIds |-> NoClaim]
  /\ packagesByClaim = [c \in ClaimIds |-> NoPackage]
  /\ nextPackageId = 1
  /\ jobsByClaimId = [c \in ClaimIds |-> NullInt]
  /\ jobsByRenderJobId = <<>>
  /\ jobsByIdempotencyKey = {}
  /\ research = [c \in ClaimIds |-> "none"]
  /\ claimPayload = [c \in ClaimIds |-> [claimCategory |-> "null", claimTypeTag |-> "null"]]
  /\ emitted = <<>>
  /\ outBefore = [c \in ClaimIds |-> NoEvent]
  /\ request = NoRequest
  /\ response = NoResponse
  /\ approvalVersion = [c \in ClaimIds |-> NullInt]
  /\ history = [c \in ClaimIds |-> {}]
  /\ pipelines = [r \in RunIds |-> NoPipeline]
  /\ activePipeline = NullInt
  /\ currentRunId = NullInt
  /\ pipeEmitted = <<>>
  /\ runLog = [r \in RunIds |-> NoRunLog]
  /\ eventSeq = 0
  /\ eventHistory = <<>>
  /\ sseClients = {}
  /\ received = [k \in Subscribers |-> <<>>]

\* ---------------------------------------------------------------- pipeline
DetectScores == {70}
Categories == {"general", "economic"}
DetectedTags == {"other"}

OneSource == <<[publisher |-> "politifact", url |-> "u1", textualRating |-> RatingFalse]>>
ConflictingSources ==
  <<[publisher |-> "politifact", url |-> "u1", textualRating |-> RatingFalse],
    [publisher |-> "snopes", url |-> "u2", textualRating |-> RatingMostlyTrue]>>

\* what lookupFactChecks can return: status and sources
FactCheckResults ==
  {[status |-> "researched", sources |-> OneSource],
   [status |-> "researched", sources |-> ConflictingSources],
   [status |-> "no_match", sources |-> <<>>],
   [status |-> "needs_manual_research", sources |-> OneSource]}

FredStates == {"matched", "error"}
Confidences == {70, 90}

toGoogleEvidenceState(result) ==
  CASE result.status = "researched" -> "matched"
    [] result.status = "no_match" -> "none"
    [] OTHER -> "error"

\* handleTranscriptionChunk: claim.detected, then the claim is queued for research
Detect(c, category, tag, score) ==
  /\ ~claims[c].exists
  /\ research[c] = "none"
  /\ Commit(emitEvent(Store, [BaseEvent("claim.detected", c) EXCEPT
                                !.status = "pending_research", !.confidence = score,
                                !.claimCategory = category, !.claimTypeTag = tag]))
  /\ research' = [research EXCEPT ![c] = "queued"]
  /\ claimPayload' = [claimPayload EXCEPT ![c] = [claimCategory |-> category,
                                                   claimTypeTag |-> tag]]
  /\ request' = NoRequest /\ response' = NoResponse
  /\ UNCHANGED approvalVersion

\* researchClaim up to its first await: claim.researching
ResearchStart(c) ==
  /\ research[c] = "queued"
  /\ Commit(emitEvent(Store, BaseEvent("claim.researching", c)))
  /\ research' = [research EXCEPT ![c] = "researching"]
  /\ request' = NoRequest /\ response' = NoResponse
  /\ UNCHANGED <<claimPayload, approvalVersion>>

ResearchUpdate(c, result, fredState, aiConfidence) ==
  LET economic == claimPayload[c].claimCategory = "economic"
      status == IF economic /\ fredState # "matched" THEN "needs_manual_research"
                ELSE result.status
  IN [BaseEvent("claim.updated", c) EXCEPT
        !.status = status, !.confidence = aiConfidence, !.sources = result.sources,
        !.claimCategory = claimPayload[c].claimCategory,
        !.claimTypeTag = claimPayload[c].claimTypeTag,
        !.googleEvidenceState = toGoogleEvidenceState(result),
        !.fredEvidenceState = IF economic THEN fredState ELSE "not_applicable"]

ResearchErrorUpdate(c) ==
  [BaseEvent("claim.updated", c) EXCEPT
     !.status = "needs_manual_research", !.confidence = 0, !.sources = <<>>,
     !.claimCategory = claimPayload[c].claimCategory,
     !.claimTypeTag = claimPayload[c].claimTypeTag,
     !.googleEvidenceState = "error",
     !.fredEvidenceState =
        IF claimPayload[c].claimCategory = "economic" THEN "error" ELSE "not_applicable"]

\* researchClaim: every provider call returned; the worker emits claim.updated
ResearchFinish(c, result, fredState, aiConfidence) ==
  /\ research[c] = "researching"
  /\ Commit(emitEvent(Store, ResearchUpdate(c, result, fredState, aiConfidence)))
  /\ research' = [research EXCEPT ![c] = "done"]
  /\ request' = NoRequest /\ response' = NoResponse
  /\ UNCHANGED <<claimPayload, approvalVersion>>

\* researchClaim: a provider call threw; the catch block emits claim.updated
ResearchError(c) ==
  /\ research[c] = "researching"
  /\ Commit(emitEvent(Store, ResearchErrorUpdate(c)))
  /\ research' = [research EXCEPT ![c] = "done"]
  /\ request' = NoRequest /\ response' = NoResponse
  /\ UNCHANGED <<claimPayload, approvalVersion>>

\* ------------------------------------------------- operator claim actions
RequestedTags == {"numeric_factual", "other", "bogus"}
VersionChoices == {"missing", "current", "stale"}

ExpectedVersion(c, choice) ==
  CASE choice = "missing" -> NullInt
    [] choice = "current" -> IF claims[c].exists THEN claims[c].version ELSE 1
    [] OTHER -> IF claims[c].exists THEN claims[c].version + 1 ELSE 2

Request(action, c, ev, tag, hasReason, force) ==
  [action |-> action, claimId |-> c, expectedVersion |-> ev,
   tag |-> tag, hasReason |-> hasReason, force |-> force]

\* the request bodies tried: every expectedVersion for every action, and for a
\* request that passes the version guard every tag, reason and force
RequestShape(action, choice, tag, hasReason, force) ==
  /\ (tag # "null") = (action = "tag-override" /\ choice = "current")
  /\ hasReason => tag # "null"
  /\ force => (action = "render-image" /\ choice = "current")

ApprovalVersionAfter(out, c, old) ==
  IF \E i \in DOMAIN out : out[i].type = "claim.output_approved" /\ out[i].claimId = c
    THEN out[CHOOSE i \in DOMAIN out :
               out[i].type = "claim.output_approved" /\ out[i].claimId = c].version
    ELSE old

\* the store, the request log and the response once the handler has run
Respond(req, r) ==
  /\ Commit(r.st)
  /\ request' = req
  /\ response' = [code |-> r.code, result |-> r.result, blockReason |-> r.blockReason]
  /\ approvalVersion' =
       [d \in ClaimIds |-> ApprovalVersionAfter(r.st.out, d, approvalVersion[d])]

\* POST /claims/:id/<action>, from the parsed body to the response
ClaimAction(action, c, choice, tag, hasReason, force) ==
  /\ RequestShape(action, choice, tag, hasReason, force)
  /\ Respond(Request(action, c, ExpectedVersion(c, choice), tag, hasReason, force),
             HandleClaimAction(Store,
               Request(action, c, ExpectedVersion(c, choice), tag, hasReason, force)))
  /\ UNCHANGED <<research, claimPayload>>

\* ------------------------------------------ renderService: processJob steps
JobIds == DOMAIN jobsByRenderJobId

\* the check processJob repeats after every await: the job is still stored and
\* still the latest job of its claim
StillLatest(jobId) ==
  /\ jobId \in DOMAIN jobsByRenderJobId
  /\ jobsByClaimId[jobsByRenderJobId[jobId].claimId] = jobId

ProcEnd(st, jobId) ==
  [st EXCEPT !.jobsByRenderJobId[jobId].proc = "done"]

RenderEvent(type, job, jobId, artifactUrl) ==
  [BaseEvent(type, job.claimId) EXCEPT
     !.renderJobId = jobId, !.claimVersion = job.claimVersion, !.artifactUrl = artifactUrl]

\* callTakumiRenderer returned an artifact
RenderReturns(jobId) ==
  /\ jobId \in JobIds
  /\ jobsByRenderJobId[jobId].proc = "calling"
  /\ LET latest == jobsByRenderJobId[jobId]
         ready == [latest EXCEPT !.attempts = latest.attempt, !.status = "ready",
                                 !.artifactUrl = "url", !.proc = "done"]
     IN IF StillLatest(jobId)
          THEN Commit(emitEvent(storeJob(Store, jobId, ready),
                                RenderEvent("claim.render_ready", ready, jobId, "url")))
          ELSE Commit(ProcEnd(Store, jobId))
  /\ request' = NoRequest /\ response' = NoResponse
  /\ UNCHANGED <<research, claimPayload, approvalVersion>>

\* callTakumiRenderer threw (HTTP error, timeout, malformed response)
RenderThrows(jobId) ==
  /\ jobId \in JobIds
  /\ jobsByRenderJobId[jobId].proc = "calling"
  /\ LET latest == jobsByRenderJobId[jobId]
         failed == [latest EXCEPT !.attempts = latest.attempt, !.status = "failed",
                                  !.proc = "done"]
     IN IF ~StillLatest(jobId) THEN Commit(ProcEnd(Store, jobId))
        ELSE IF latest.attempt >= MaxAttempts
          THEN Commit(emitEvent(storeJob(Store, jobId, failed),
                                RenderEvent("claim.render_failed", failed, jobId, "null")))
        ELSE Commit([Store EXCEPT !.jobsByRenderJobId[jobId].proc = "sleeping"])
  /\ request' = NoRequest /\ response' = NoResponse
  /\ UNCHANGED <<research, claimPayload, approvalVersion>>

\* the backoff sleep ended: next loop iteration up to the renderer call
RenderRetry(jobId) ==
  /\ jobId \in JobIds
  /\ jobsByRenderJobId[jobId].proc = "sleeping"
  /\ IF StillLatest(jobId)
       THEN Commit([Store EXCEPT !.jobsByRenderJobId[jobId].proc = "calling",
                                 !.jobsByRenderJobId[jobId].attempt = @ + 1])
       ELSE Commit(ProcEnd(Store, jobId))
  /\ request' = NoRequest /\ response' = NoResponse
  /\ UNCHANGED <<research, claimPayload, approvalVersion>>

\* ------------------------------------------------------------ specification
Next ==
  \/ \E c \in ClaimIds, category \in Categories, tag \in DetectedTags, score \in DetectScores :
       Detect(c, category, tag, score)
  \/ \E c \in ClaimIds : ResearchStart(c)
  \/ \E c \in ClaimIds, result \in FactCheckResults, fredState \in FredStates,
        aiConfidence \in Confidences :
       ResearchFinish(c, result, fredState, aiConfidence)
  \/ \E c \in ClaimIds : ResearchError(c)
  \/ \E action \in ClaimActions, c \in ClaimIds, choice \in VersionChoices,
        tag \in RequestedTags \cup {"null"}, hasReason \in BOOLEAN, force \in BOOLEAN :
       ClaimAction(action, c, choice, tag, hasReason, force)
  \/ \E jobId \in 1..MaxJobs : RenderReturns(jobId)
  \/ \E jobId \in 1..MaxJobs : RenderThrows(jobId)
  \/ \E jobId \in 1..MaxJobs : RenderRetry(jobId)

Spec == Init /\ [][Next]_vars

\* ------------------------------------------- the store under any event feed
\* SpecStore drives emitEvent with every claim.updated and every package/render
\* event its callers could hand it, whatever produced them: updateClaimState
\* is written for any event (it tests Number.isInteger(event.claimVersion) and
\* falls back when the claim is missing), while the pipeline researches a claim
\* once and the collaborators always send an integer claimVersion.

UpdateDelivered(c, result, fredState, aiConfidence) ==
  /\ claims[c].exists
  /\ Commit(emitEvent(Store, ResearchUpdate(c, result, fredState, aiConfidence)))
  /\ request' = NoRequest /\ response' = NoResponse
  /\ UNCHANGED <<research, claimPayload, approvalVersion>>

DeliveredVersions(c) ==
  {NullInt} \cup (IF claims[c].exists THEN {claims[c].approvedVersion, claims[c].version}
                  ELSE {})

OutputEventDelivered(c, type, claimVersion, renderJobId) ==
  /\ claims[c].exists
  /\ claimVersion \in DeliveredVersions(c)
  /\ Commit(emitEvent(Store, [BaseEvent(type, c) EXCEPT
                                !.claimVersion = claimVersion,
                                !.renderJobId = IF type \in RenderEventTypes
                                                  THEN renderJobId ELSE NullInt,
                                !.packageId = IF type \in PackageEventTypes
                                                THEN 1 ELSE NullInt,
                                !.artifactUrl = IF type = "claim.render_ready"
                                                  THEN "url" ELSE "null"]))
  /\ request' = NoRequest /\ response' = NoResponse
  /\ UNCHANGED <<research, claimPayload, approvalVersion>>

StoreResults ==
  {[status |-> "researched", sources |-> OneSource], [status |-> "no_match", sources |-> <<>>]}

NextStore ==
  \/ \E c \in ClaimIds : Detect(c, "general", "numeric_factual", 70)
  \/ \E c \in ClaimIds, result \in StoreResults :
       UpdateDelivered(c, result, "matched", 70)
  \/ \E action \in {"approve-output", "reject-output"}, c \in ClaimIds :
       ClaimAction(action, c, "current", "null", FALSE, FALSE)
  \/ \E c \in ClaimIds, type \in PackageEventTypes \cup RenderEventTypes,
        claimVersion \in 0..MaxVersion, renderJobId \in 0..MaxJobs :
       OutputEventDelivered(c, type, claimVersion, renderJobId)

SpecStore == Init /\ [][NextStore]_vars

\* ------------------------------------------------ server: run control, onEvent
\* emitEvent's handling of pipeline.started / pipeline.stopped
onPipelineEvent(s, event) ==
  [activePipeline |->
     IF event.type = "pipeline.stopped" /\ event.runId = s.currentRunId
       THEN NullInt ELSE s.activePipeline,
   currentRunId |->
     IF event.type = "pipeline.started" THEN event.runId ELSE s.currentRunId]

RECURSIVE onPipelineEvents(_, _)
onPipelineEvents(s, events) ==
  IF events = <<>> THEN s
  ELSE onPipelineEvents(onPipelineEvent(s, Head(events)), Tail(events))

LogEvent(l, event) ==
  CASE event.type = "pipeline.started" -> [l EXCEPT !.started = TRUE]
    [] event.type = "pipeline.stopped" -> [l EXCEPT !.stopped = @ + 1]
    [] event.type = "audio.chunk" -> [l EXCEPT !.chunks = @ + 1]
    [] event.type = "claim.researching" -> [l EXCEPT !.researching = event.claimId]
    [] event.type = "pipeline.reconnect_scheduled" ->
         [l EXCEPT !.reconnect = event.type, !.scheduledInRow = @ + 1]
    [] event.type = "pipeline.reconnect_started" -> [l EXCEPT !.reconnect = event.type]
    [] event.type = "pipeline.reconnect_succeeded" ->
         [l EXCEPT !.reconnect = event.type, !.scheduledInRow = 0]
    [] OTHER -> l

RECURSIVE LogEvents(_, _)
LogEvents(l, events) ==
  IF events = <<>> THEN l ELSE LogEvents(LogEvent(l, Head(events)), Tail(events))

Callback(name, r, a) == [action |-> name, runId |-> r, attempt |-> a]

SpawnCallback(name, r, spawnOutcome) == [action |-> name, runId |-> r, spawn |-> spawnOutcome]

ServerAfter(s) == activePipeline' = s.activePipeline /\ currentRunId' = s.currentRunId

\* install the pipeline state a callback of run r produced and hand its events
\* to the server's onEvent
PipeCommit(r, q, callback) ==
  /\ pipelines' = [pipelines EXCEPT ![r] = [q EXCEPT !.out = <<>>]]
  /\ pipeEmitted' = q.out
  /\ ServerAfter(onPipelineEvents([activePipeline |-> activePipeline,
                                   currentRunId |-> currentRunId], q.out))
  /\ runLog' = [runLog EXCEPT ![r] = LogEvents(@, q.out)]
  /\ request' = callback
  /\ response' = NoResponse
  /\ UNCHANGED <<claims, packagesByClaim, nextPackageId, jobsByClaimId, jobsByRenderJobId,
                 jobsByIdempotencyKey, research, claimPayload, emitted, outBefore,
                 approvalVersion, history, sseVars>>

StartBodies == {"valid", "invalid_url", "no_api_key"}

NextRunId == Cardinality({r \in RunIds : pipelines[r].created}) + 1

\* POST /start past the already-running guard: clear the stores, create and
\* start the pipeline
StartPipeline(r, q, body) ==
  /\ pipelines' = [pipelines EXCEPT ![r] = [q EXCEPT !.out = <<>>]]
  /\ pipeEmitted' = q.out
  /\ runLog' = [runLog EXCEPT ![r] = LogEvents(@, q.out)]
  /\ IF body = "no_api_key"
       THEN /\ activePipeline' = NullInt /\ currentRunId' = NullInt
            /\ response' = [code |-> 500, result |-> "start_threw"]
       ELSE /\ ServerAfter(onPipelineEvents([activePipeline |-> r,
                                             currentRunId |-> NullInt], q.out))
            /\ response' = IF q.running THEN [code |-> 202, result |-> "started"]
                           ELSE [code |-> NullInt, result |-> "handler_threw"]
  /\ claims' = [c \in ClaimIds |-> NoClaim]
  /\ packagesByClaim' = [c \in ClaimIds |-> NoPackage]
  /\ jobsByClaimId' = [c \in ClaimIds |-> NullInt]
  /\ jobsByRenderJobId' = <<>>
  /\ jobsByIdempotencyKey' = {}
  /\ eventHistory' = <<>>
  /\ UNCHANGED <<nextPackageId, research, claimPayload, emitted, outBefore, approvalVersion,
                 history, eventSeq, sseClients, received>>

\* POST /start answered without touching the pipeline
Refused(code, result) ==
  /\ request' = Callback("start", NullInt, NullInt)
  /\ response' = [code |-> code, result |-> result]
  /\ pipeEmitted' = <<>>
  /\ UNCHANGED <<claims, packagesByClaim, nextPackageId, jobsByClaimId, jobsByRenderJobId,
                 jobsByIdempotencyKey, research, claimPayload, emitted, outBefore,
                 approvalVersion, history, sseVars, pipelines, activePipeline, currentRunId,
                 runLog>>

Start_NoRunningGuard(body, spawnOutcome, reconnectEnabled, maxRetries, concurrencyOption, limit) ==
  /\ NextRunId <= limit
  /\ request' = SpawnCallback("start", NextRunId, spawnOutcome)
  /\ body # "invalid_url"
  /\ StartPipeline(NextRunId,
                   IF body = "no_api_key"
                     THEN createPipeline(NextRunId, reconnectEnabled, maxRetries,
                                         concurrencyOption)
                   ELSE start(createPipeline(NextRunId, reconnectEnabled, maxRetries,
                                             concurrencyOption), spawnOutcome),
                   body)

\* POST /start
Start(body, spawnOutcome, reconnectEnabled, maxRetries, concurrencyOption, limit) ==
  IF body = "invalid_url" THEN Refused(400, "invalid_url")
  ELSE IF activePipeline # NullInt /\ pipelines[activePipeline].running
    THEN Refused(409, "already_running")
  ELSE /\ NextRunId <= limit
       /\ request' = SpawnCallback("start", NextRunId, spawnOutcome)
       /\ StartPipeline(NextRunId,
                        IF body = "no_api_key"
                          THEN createPipeline(NextRunId, reconnectEnabled, maxRetries,
                                              concurrencyOption)
                        ELSE start(createPipeline(NextRunId, reconnectEnabled, maxRetries,
                                                  concurrencyOption), spawnOutcome),
                        body)

\* POST /stop
Stop ==
  /\ IF activePipeline # NullInt /\ pipelines[activePipeline].running
       THEN PipeCommit(activePipeline, stop(pipelines[activePipeline], "user_requested_stop"),
                       Callback("stop", activePipeline, NullInt))
     ELSE /\ request' = Callback("stop", activePipeline, NullInt)
          /\ pipeEmitted' = <<>>
          /\ UNCHANGED <<claims, packagesByClaim, nextPackageId, jobsByClaimId,
                         jobsByRenderJobId, jobsByIdempotencyKey, research, claimPayload,
                         emitted, outBefore, approvalVersion, history, sseVars,
                         pipelines, activePipeline, currentRunId, runLog, response>>

\* -------------------------------------------------------- pipeline callbacks
Created(r) == pipelines[r].created

AttemptIds(r) == IF Created(r) THEN DOMAIN pipelines[r].attempts ELSE {}

ExitCodes == {"zero", "nonzero"}

\* chunks cut and ingest attempts spawned so far, over all runs
TotalChunks ==
  LET sum[r \in 0..MaxRuns] ==
        IF r = 0 THEN 0
        ELSE sum[r - 1] + (IF Created(r) THEN pipelines[r].chunkIndex ELSE 0)
  IN sum[MaxRuns]

TotalAttempts ==
  LET sum[r \in 0..MaxRuns] ==
        IF r = 0 THEN 0
        ELSE sum[r - 1] + (IF Created(r) THEN Len(pipelines[r].attempts) ELSE 0)
  IN sum[MaxRuns]

MarkClosed(p, a, stage) ==
  IF stage = "yt-dlp" THEN [p EXCEPT !.attempts[a].ytdlpClosed = TRUE]
  ELSE [p EXCEPT !.attempts[a].ffmpegClosed = TRUE]

StageClosed(attempt, stage) ==
  IF stage = "yt-dlp" THEN attempt.ytdlpClosed ELSE attempt.ffmpegClosed

\* 'close' of one of the attempt's two processes
ProcessClose(r, a, stage, code) ==
  /\ a \in AttemptIds(r)
  /\ ~StageClosed(pipelines[r].attempts[a], stage)
  /\ PipeCommit(r,
       IF ~isCurrentAttempt(pipelines[r], a) /\ ~pipelines[r].attempts[a].finalized
         THEN MarkClosed(pipelines[r], a, stage)
       ELSE onProcessClose(MarkClosed(pipelines[r], a, stage), a, stage, code),
       Callback("close", r, NullInt))

\* 'error' of one of the attempt's two processes
ProcessError(r, a, stage) ==
  /\ a \in AttemptIds(r)
  /\ ~StageClosed(pipelines[r].attempts[a], stage)
  /\ isCurrentAttempt(pipelines[r], a)
  /\ PipeCommit(r, onProcessError(pipelines[r], a, stage), Callback("error", r, NullInt))

\* the CLOSE_WAIT_MS timer set when the first of the two processes closed
CloseTimer(r, a) ==
  /\ a \in AttemptIds(r)
  /\ pipelines[r].attempts[a].closeTimer
  /\ PipeCommit(r, finalizeAttempt([pipelines[r] EXCEPT !.attempts[a].closeTimer = FALSE],
                                   a, "null"),
                Callback("close_timer", r, NullInt))

\* idle times a tick can measure: under, at and over the threshold
IdleTimes == {ingestStallTimeoutMs - 1, ingestStallTimeoutMs, ingestStallTimeoutMs + 1000}

StallWatchdog(r, idleMs) ==
  /\ Created(r)
  /\ pipelines[r].stallWatchdog
  /\ PipeCommit(r, onStallWatchdog(pipelines[r], idleMs),
                [action |-> "stall_watchdog", runId |-> r, attempt |-> NullInt, idleMs |-> idleMs])

ReconnectTimer(r, spawnOutcome, limit) ==
  /\ Created(r)
  /\ pipelines[r].reconnectTimer
  /\ TotalAttempts < limit
  /\ PipeCommit(r, onReconnectTimer(pipelines[r], spawnOutcome),
                SpawnCallback("reconnect_timer", r, spawnOutcome))

DataSizes == {chunkBytes \div 2, chunkBytes, 2 * chunkBytes}

AudioData(r, a, size, limit) ==
  /\ a \in AttemptIds(r)
  /\ ~pipelines[r].attempts[a].ffmpegClosed
  /\ TotalChunks + ((pipelines[r].bufferedAudio + size) \div chunkBytes) <= limit
  /\ PipeCommit(r, onAudioData(pipelines[r], a, size), Callback("audio_data", r, a))

StderrData(r, a) ==
  /\ a \in AttemptIds(r)
  /\ ~(pipelines[r].attempts[a].ytdlpClosed /\ pipelines[r].attempts[a].ffmpegClosed)
  /\ isCurrentAttempt(pipelines[r], a)
  /\ PipeCommit(r, onStderrData(pipelines[r], a), Callback("stderr_data", r, NullInt))

Calls(r) == IF Created(r) THEN pipelines[r].calls ELSE {}

TranscriptResults ==
  {[text |-> <<>>, claims |-> <<>>],
   [text |-> <<"s", "o">>, claims |-> <<>>],
   [text |-> <<"n", "o", ".">>, claims |-> <<"general">>],
   [text |-> <<"n", "o", ".">>, claims |-> <<"economic", "political">>]}

ClaimFreeTranscripts == {t \in TranscriptResults : t.claims = <<>>}

\* transcribePcmChunk returned: the fetch carries the run's abort signal, so a
\* call pending at abort rejects instead
TranscriptionReturns(r, chunkNo, transcript) ==
  /\ chunkNo \in Calls(r)
  /\ ~pipelines[r].aborted
  /\ pipelines[r].claimIndex + Len(transcript.claims) <= MaxClaims
  /\ PipeCommit(r,
       drainTranscriptionLoop(
         TranscriptHandled([pipelines[r] EXCEPT !.calls = @ \ {chunkNo}], transcript)),
       Callback("transcription_returns", r, NullInt))

TranscriptionThrows(r, chunkNo) ==
  /\ chunkNo \in Calls(r)
  /\ PipeCommit(r,
       drainTranscriptionLoop(
         TranscriptionFailed([pipelines[r] EXCEPT !.calls = @ \ {chunkNo}], chunkNo)),
       Callback("transcription_throws", r, NullInt))

FlushTimer(r) ==
  /\ Created(r)
  /\ pipelines[r].transcriptFlushTimer
  /\ PipeCommit(r, onTranscriptFlushTimer(pipelines[r]), Callback("flush_timer", r, NullInt))

Workers(r) == IF Created(r) THEN pipelines[r].workers ELSE {}

ProviderReturns(r, claimId) ==
  /\ \E w \in Workers(r) : w.claimId = claimId
  /\ PipeCommit(r, ProviderReturned(pipelines[r],
                                    CHOOSE w \in Workers(r) : w.claimId = claimId),
                Callback("provider_returns", r, NullInt))

ProviderThrows(r, claimId) ==
  /\ \E w \in Workers(r) : w.claimId = claimId
  /\ PipeCommit(r, ProviderThrew(pipelines[r],
                                 CHOOSE w \in Workers(r) : w.claimId = claimId),
                [action |-> "provider_throws", runId |-> r, attempt |-> NullInt,
                 claimId |-> claimId])

\* ------------------------------------------------- specification: pipeline
ReconnectOptions == BOOLEAN
RetryOptions == {1}
ConcurrencyOptions == {0, 2, 20}

NextPipeline ==
  \/ \E body \in StartBodies, spawnOutcome \in SpawnOutcomes,
        reconnectEnabled \in ReconnectOptions, maxRetries \in RetryOptions :
       Start(body, spawnOutcome, reconnectEnabled, maxRetries, 3, 1)
  \/ Stop
  \/ \E r \in RunIds, a \in 1..MaxIngestAttempts, stage \in {"yt-dlp", "ffmpeg"},
        code \in ExitCodes :
       ProcessClose(r, a, stage, code)
  \/ \E r \in RunIds, a \in 1..MaxIngestAttempts, stage \in {"yt-dlp", "ffmpeg"} :
       ProcessError(r, a, stage)
  \/ \E r \in RunIds, a \in 1..MaxIngestAttempts : CloseTimer(r, a)
  \/ \E r \in RunIds, idleMs \in {ingestStallTimeoutMs - 1, ingestStallTimeoutMs} : StallWatchdog(r, idleMs)
  \/ \E r \in RunIds, spawnOutcome \in SpawnOutcomes : ReconnectTimer(r, spawnOutcome, MaxIngestAttempts)
  \/ \E r \in RunIds, a \in 1..MaxIngestAttempts, size \in DataSizes :
       AudioData(r, a, size, MaxChunks)
  \/ \E r \in RunIds, a \in 1..MaxIngestAttempts : StderrData(r, a)
  \/ \E r \in RunIds, chunkNo \in 0..MaxChunks, transcript \in ClaimFreeTranscripts :
       TranscriptionReturns(r, chunkNo, transcript)
  \/ \E r \in RunIds, chunkNo \in 0..MaxChunks : TranscriptionThrows(r, chunkNo)
  \/ \E r \in RunIds : FlushTimer(r)

SpecPipeline == Init /\ [][NextPipeline]_vars

\* ------------------------------------------- specification: successive runs
\* Runs that start, end and follow one another, without audio; the exit code
\* of a process only picks the reason of pipeline.stopped.
NextRuns ==
  \/ \E body \in StartBodies, spawnOutcome \in SpawnOutcomes,
        reconnectEnabled \in ReconnectOptions, maxRetries \in RetryOptions :
       Start(body, spawnOutcome, reconnectEnabled, maxRetries, 3, MaxRuns)
  \/ Stop
  \/ \E r \in RunIds, a \in 1..MaxIngestAttempts, stage \in {"yt-dlp", "ffmpeg"} :
       ProcessClose(r, a, stage, "nonzero")
  \/ \E r \in RunIds, a \in 1..MaxIngestAttempts, stage \in {"yt-dlp", "ffmpeg"} :
       ProcessError(r, a, stage)
  \/ \E r \in RunIds, a \in 1..MaxIngestAttempts : CloseTimer(r, a)
  \/ \E r \in RunIds, idleMs \in {ingestStallTimeoutMs - 1, ingestStallTimeoutMs} : StallWatchdog(r, idleMs)
  \/ \E r \in RunIds, spawnOutcome \in SpawnOutcomes : ReconnectTimer(r, spawnOutcome, MaxIngestAttempts)

SpecRuns == Init /\ [][NextRuns]_vars

\* ------------------------------------------------- specification: research
\* One run with reconnection disabled: chunks are transcribed, claims detected
\* and researched, and the run is stopped or its ingest fails at any point.
NextResearch ==
  \/ \E concurrencyOption \in ConcurrencyOptions :
       Start("valid", "spawned", FALSE, 0, concurrencyOption, 1)
  \/ Stop
  \/ \E r \in RunIds, stage \in {"yt-dlp", "ffmpeg"} : ProcessError(r, 1, stage)
  \/ \E r \in RunIds : AudioData(r, 1, chunkBytes, MaxChunks)
  \/ \E r \in RunIds, chunkNo \in 0..MaxChunks, transcript \in TranscriptResults :
       TranscriptionReturns(r, chunkNo, transcript)
  \/ \E r \in RunIds, chunkNo \in 0..MaxChunks : TranscriptionThrows(r, chunkNo)
  \/ \E r \in RunIds, claimId \in 1..MaxClaims : ProviderReturns(r, claimId)
  \/ \E r \in RunIds, claimId \in 1..MaxClaims : ProviderThrows(r, claimId)

SpecResearch == Init /\ [][NextResearch]_vars

\* -------------------------------------------------- specification: backlog
\* One run whose transcription falls behind the audio: chunks queue up while
\* a call is pending, the watchdog ticks, the ingest reconnects.
NextBacklog ==
  \/ Start("valid", "spawned", TRUE, 0, 3, 1)
  \/ \E r \in RunIds, a \in 1..MaxIngestAttempts : AudioData(r, a, chunkBytes, MaxBacklog)
  \/ \E r \in RunIds, chunkNo \in 0..MaxBacklog :
       TranscriptionReturns(r, chunkNo, [text |-> <<>>, claims |-> <<>>])
  \/ \E r \in RunIds, chunkNo \in 0..MaxBacklog : TranscriptionThrows(r, chunkNo)
  \/ \E r \in RunIds, idleMs \in {ingestStallTimeoutMs - 1, ingestStallTimeoutMs} : StallWatchdog(r, idleMs)
  \/ \E r \in RunIds : ReconnectTimer(r, "spawned", MaxIngestAttempts)

SpecBacklog == Init /\ [][NextBacklog]_vars

\* ------------------------------------------------ specification: reconnect
\* One run with reconnection enabled and a retry budget: attempts fail, stall
\* or deliver audio, and the run reconnects until the budget is used up.
NextReconnect ==
  \/ \E maxRetries \in {1, 2} : Start("valid", "spawned", TRUE, maxRetries, 3, 1)
  \/ Stop
  \/ \E r \in RunIds, a \in 1..MaxReconnects : ProcessClose(r, a, "ffmpeg", "nonzero")
  \/ \E r \in RunIds, a \in 1..MaxReconnects : ProcessError(r, a, "yt-dlp")
  \/ \E r \in RunIds, a \in 1..MaxReconnects : CloseTimer(r, a)
  \/ \E r \in RunIds, idleMs \in IdleTimes : StallWatchdog(r, idleMs)
  \/ \E r \in RunIds : ReconnectTimer(r, "spawned", MaxReconnects)
  \/ \E r \in RunIds, a \in 1..MaxReconnects : AudioData(r, a, chunkBytes \div 2, 0)

SpecReconnect == Init /\ [][NextReconnect]_vars

\* --------------------------------------------- specification: event stream
\* The SSE feed of the server.  An event is represented by its seq; of its type
\* only whether it is pipeline.started matters here.  A subscriber is one
\* connection to GET /events; received is what has been written to it.
HistoryLimit == 1000
ReplayLimit == 200
RecentLimit == 25

\* array.slice(-n)
LastN(n, seq) == IF Len(seq) <= n THEN seq ELSE SubSeq(seq, Len(seq) - n + 1, Len(seq))

\* Number.parseInt of the Last-Event-ID header: [given |-> FALSE] stands for a
\* missing header or one that does not parse to an integer
LastEventIds ==
  {[given |-> FALSE, id |-> 0]} \cup {[given |-> TRUE, id |-> n] : n \in {0, 3, MaxSeq}}

replayEvents_WholeHistory(events, lastEventId) == events

replayEvents(events, lastEventId) ==
  IF lastEventId.given
    THEN LastN(ReplayLimit, SelectSeq(events, LAMBDA seq : seq > lastEventId.id))
  ELSE LastN(RecentLimit, events)

PushHistory(events, seq) ==
  IF Len(events) + 1 > HistoryLimit THEN Tail(Append(events, seq))
  ELSE Append(events, seq)

SseUnchanged ==
  UNCHANGED <<claims, packagesByClaim, nextPackageId, jobsByClaimId, jobsByRenderJobId,
              jobsByIdempotencyKey, research, claimPayload, emitted, outBefore,
              response, approvalVersion, history, pipeVars>>

\* emitEvent: number the event, keep it in the history, write it to the clients
EmitEvent(type) ==
  /\ eventSeq < MaxSeq
  /\ eventSeq' = eventSeq + 1
  /\ eventHistory' = PushHistory(IF type = "pipeline.started" THEN <<>> ELSE eventHistory,
                                 eventSeq + 1)
  /\ received' = [k \in Subscribers |->
                    IF k \in sseClients THEN Append(received[k], eventSeq + 1)
                    ELSE received[k]]
  /\ request' = [action |-> "emitEvent"]
  /\ UNCHANGED sseClients
  /\ SseUnchanged

\* POST /start empties the history before the pipeline is created
HistoryCleared ==
  /\ eventHistory # <<>>
  /\ eventHistory' = <<>>
  /\ request' = [action |-> "start"]
  /\ UNCHANGED <<eventSeq, sseClients, received>>
  /\ SseUnchanged

\* GET /events
Subscribe(k, lastEventId) ==
  /\ k \notin sseClients
  /\ sseClients' = sseClients \cup {k}
  /\ received' = [received EXCEPT ![k] = replayEvents(eventHistory, lastEventId)]
  /\ request' = [action |-> "events", lastEventId |-> lastEventId]
  /\ UNCHANGED <<eventSeq, eventHistory>>
  /\ SseUnchanged

\* 'close' of a subscriber's request
Unsubscribe(k) ==
  /\ k \in sseClients
  /\ sseClients' = sseClients \ {k}
  /\ request' = [action |-> "events.close"]
  /\ UNCHANGED <<eventSeq, eventHistory, received>>
  /\ SseUnchanged

NextEvents ==
  \/ \E type \in {"pipeline.started", "other"} : EmitEvent(type)
  \/ HistoryCleared
  \/ \E k \in Subscribers, lastEventId \in LastEventIds : Subscribe(k, lastEventId)
  \/ \E k \in Subscribers : Unsubscribe(k)

SpecEvents == Init /\ [][NextEvents]_vars

\* -------------------------------------------------------------- properties
EmittedFor(c) == SelectSeq(emitted, LAMBDA e : e.claimId = c)

IsClaimActionStep == request'.action \in ClaimActions

\* the snapshot the request of this step met, and its policy
Target == claims[request'.claimId]
TargetPolicy == evaluateClaimPolicy(Target)

PassesVersionGuard == request'.expectedVersion = Target.version

StoreUnchanged ==
  /\ claims' = claims
  /\ packagesByClaim' = packagesByClaim
  /\ jobsByClaimId' = jobsByClaimId
  /\ jobsByRenderJobId' = jobsByRenderJobId
  /\ jobsByIdempotencyKey' = jobsByIdempotencyKey

\* C1: claim.output_approved is broadcast only by an approve-output request
\* whose claim's policy, evaluated on the snapshot the request met, gives
\* approvalEligibility = TRUE; an approve-output request on an ineligible claim
\* that is not yet approved broadcasts nothing and leaves the snapshot
\* unchanged, and once past the version guard it is answered 409 with the
\* policy's approvalBlockReason.
C1_ApprovedOnlyWhenEligible ==
  [][ /\ \A i \in DOMAIN emitted' :
           emitted'[i].type = "claim.output_approved" =>
             /\ request'.action = "approve-output"
             /\ request'.claimId = emitted'[i].claimId
             /\ Target.exists
             /\ TargetPolicy.approvalEligibility
      /\ ( /\ request'.action = "approve-output"
           /\ Target.exists
           /\ Target.outputApprovalState # "approved"
           /\ ~TargetPolicy.approvalEligibility )
         => /\ emitted' = <<>>
            /\ StoreUnchanged
            /\ PassesVersionGuard =>
                 /\ response'.code = 409
                 /\ response'.blockReason = TargetPolicy.approvalBlockReason
                 /\ response'.blockReason # "null" ]_vars

C1_Witness ==
  /\ request.action = "approve-output"
  /\ response.code = 409
  /\ response.blockReason = "below_threshold"
  /\ emitted = <<>>

IsOutputEvent(e) == e.type \in PackageEventTypes \cup RenderEventTypes

C3_UpdateRevokesApproval ==
  [][ \A i \in DOMAIN emitted' :
        ( /\ emitted'[i].type = "claim.updated"
          /\ claims[emitted'[i].claimId].exists
          /\ claims[emitted'[i].claimId].outputApprovalState = "approved" )
        => LET after == claims'[emitted'[i].claimId]
           IN /\ after.outputApprovalState = "pending"
              /\ after.approvedVersion = NullInt
              /\ after.approvedAt = "null"
              /\ after.outputPackageStatus = "none"
              /\ after.outputPackageId = NullInt
              /\ after.renderStatus = "none"
              /\ after.renderJobId = NullInt
              /\ after.artifactUrl = "null"
              /\ emitted'[i].outputApprovalState = "pending" ]_vars

C3_Witness ==
  \E i \in DOMAIN emitted :
    /\ emitted[i].type = "claim.updated"
    /\ emitted[i].priorApprovalState = "approved"
    /\ emitted[i].priorApprovedVersion # NullInt

\* C4: an approved claim has an integer approvedVersion equal to the version
\* its snapshot had right after the approving claim.output_approved, hence at
\* most the current version.
C4_ApprovedVersionIsApprovalVersion ==
  \A c \in ClaimIds :
    (claims[c].exists /\ claims[c].outputApprovalState = "approved") =>
      /\ IsInteger(claims[c].approvedVersion)
      /\ claims[c].approvedVersion = approvalVersion[c]
      /\ claims[c].approvedVersion <= claims[c].version

C4_Witness ==
  \E c \in ClaimIds :
    /\ claims[c].exists
    /\ claims[c].outputApprovalState = "approved"
    /\ claims[c].renderStatus = "ready"
    /\ claims[c].version > claims[c].approvedVersion

\* C5 as claimed: the first event broadcast for a claim id is claim.detected
\* with version 1, and every later event for it carries the previous event's
\* version plus 1.
C5_VersionsStepByOne ==
  \A c \in ClaimIds :
    LET evs == EmittedFor(c)
    IN /\ (outBefore[c] = NoEvent /\ evs # <<>>) =>
            (evs[1].type = "claim.detected" /\ evs[1].version = 1)
       /\ \A i \in DOMAIN evs :
            evs[i].version =
              (IF i = 1 THEN outBefore[c].version ELSE evs[i - 1].version) + 1

C7_UpdateReopensRejected ==
  [][ \A i \in DOMAIN emitted' :
        ( /\ emitted'[i].type = "claim.updated"
          /\ claims[emitted'[i].claimId].exists
          /\ claims[emitted'[i].claimId].outputApprovalState = "rejected" )
        => claims'[emitted'[i].claimId].outputApprovalState = "pending" ]_vars

\* C8: generate-package and render-image broadcast package or render events
\* (start work) only when the policy on the snapshot they met gives
\* exportEligibility and approvedVersion is an integer, and every event and
\* stored package / job they produce carries that approvedVersion as
\* claimVersion; past the version guard, otherwise, they answer 409 and
\* broadcast nothing.
C8_ExportPinnedToApprovedVersion ==
  [][ ( /\ request'.action \in {"generate-package", "render-image"}
        /\ Target.exists )
      => /\ (emitted' # <<>> \/ ~StoreUnchanged) =>
              /\ TargetPolicy.exportEligibility
              /\ IsInteger(Target.approvedVersion)
              /\ \A i \in DOMAIN emitted' :
                   /\ IsOutputEvent(emitted'[i])
                   /\ emitted'[i].claimVersion = Target.approvedVersion
              /\ packagesByClaim' # packagesByClaim =>
                   packagesByClaim'[request'.claimId].claimVersion = Target.approvedVersion
              /\ jobsByClaimId' # jobsByClaimId =>
                   jobsByRenderJobId'[jobsByClaimId'[request'.claimId]].claimVersion
                     = Target.approvedVersion
         /\ ( /\ PassesVersionGuard
              /\ ~(TargetPolicy.exportEligibility /\ IsInteger(Target.approvedVersion)) )
            => (response'.code = 409 /\ emitted' = <<>> /\ StoreUnchanged) ]_vars

C8_Witness ==
  /\ request.action = "render-image"
  /\ request.force
  /\ response.result = "succeeded"
  /\ \E i \in DOMAIN emitted :
       emitted[i].type = "claim.render_queued" /\ emitted[i].applied

\* C9: a successful approve-output on a claim at version v broadcasts, in this
\* order, claim.output_approved (approvedVersion = v+1), the package events and
\* claim.render_queued, all pinned to claimVersion v+1 and all applied to the
\* snapshot, whose approvedVersion is v+1 afterwards; the package and the
\* render job it stores carry v+1.
C9_ApproveThenPackageThenRender ==
  [][ ( /\ request'.action = "approve-output"
        /\ response'.result = "succeeded" )
      => LET v == Target.version
         IN /\ [i \in DOMAIN emitted' |-> emitted'[i].type] =
                 <<"claim.output_approved", "claim.output_package_queued",
                   "claim.output_package_ready", "claim.render_queued">>
            /\ emitted'[1].approvedVersion = v + 1
            /\ emitted'[1].version = v + 1
            /\ \A i \in 2..4 :
                 /\ emitted'[i].claimVersion = v + 1
                 /\ emitted'[i].priorApprovedVersion = v + 1
                 /\ emitted'[i].applied
            /\ claims'[request'.claimId].approvedVersion = v + 1
            /\ packagesByClaim'[request'.claimId].claimVersion = v + 1
            /\ jobsByRenderJobId'[jobsByClaimId'[request'.claimId]].claimVersion = v + 1 ]_vars

C9_Witness ==
  /\ request.action = "approve-output"
  /\ response.result = "succeeded"
  /\ Len(emitted) = 4
  /\ claims[request.claimId].renderStatus = "queued"

\* C10: tag-override broadcasts claim.updated (and so changes claimTypeTag)
\* only when the requested tag is valid, a reason is given and the claim is
\* not approved; when one of these fails nothing is broadcast and the snapshot
\* is unchanged.
C10_TagOverrideGuards ==
  [][ ( /\ request'.action = "tag-override"
        /\ Target.exists )
      => LET allowed == /\ request'.tag \in {"numeric_factual", "simple_policy", "other"}
                        /\ request'.hasReason
                        /\ Target.outputApprovalState # "approved"
         IN /\ (emitted' # <<>> \/ claims' # claims) => allowed
            /\ ~allowed => (emitted' = <<>> /\ StoreUnchanged /\ response'.code \in {400, 409})
            /\ (allowed /\ PassesVersionGuard) =>
                 /\ [i \in DOMAIN emitted' |-> emitted'[i].type] = <<"claim.updated">>
                 /\ claims'[request'.claimId].claimTypeTag = request'.tag ]_vars

C10_Witness ==
  /\ request.action = "tag-override"
  /\ response.result = "succeeded"
  /\ request.tag = "numeric_factual"
  /\ claims[request.claimId].claimTypeTag = "numeric_factual"
  /\ claims[request.claimId].approvalEligibility

\* ---------------------------------------------------- properties: pipeline
Running == {r \in RunIds : pipelines[r].running}

StartedNow(r) == runLog'[r].started /\ ~runLog[r].started

StoppedNow(r) == runLog'[r].stopped > runLog[r].stopped

\* C11: at most one pipeline is running at any time; POST /start while a run
\* is active is refused without creating or starting a pipeline, and a run is
\* started only when every earlier run has emitted pipeline.stopped.
C11_SingleRun ==
  /\ [](Cardinality(Running) <= 1)
  /\ [][ /\ ( /\ request'.action = "start"
              /\ activePipeline # NullInt
              /\ pipelines[activePipeline].running )
            => /\ response'.code \in {400, 409}
               /\ pipelines' = pipelines
               /\ pipeEmitted' = <<>>
               /\ activePipeline' = activePipeline
         /\ \A r \in RunIds :
              StartedNow(r) =>
                \A other \in RunIds \ {r} : runLog[other].started => runLog[other].stopped >= 1
       ]_vars

C11_Witness ==
  /\ request.action = "start"
  /\ response.code = 409
  /\ pipelines[2].running
  /\ runLog[1].stopped = 1

StopEvents == SelectSeq(pipeEmitted', LAMBDA e : e.type = "pipeline.stopped")

\* run r ends in this step with exactly one pipeline.stopped, its reason one of `reasons`
StopsOnce(r, reasons) ==
  /\ Len(StopEvents) = 1
  /\ StopEvents[1].runId = r
  /\ StopEvents[1].reason \in reasons
  /\ runLog'[r].stopped = 1
  /\ ~pipelines'[r].running

\* an ingest attempt of the running pipeline r ends in this step
AttemptEnds(r) ==
  /\ pipelines[r].running
  /\ ~Halted(pipelines[r])
  /\ \E a \in DOMAIN pipelines[r].attempts :
       ~pipelines[r].attempts[a].finalized /\ pipelines'[r].attempts[a].finalized

RetriesExhausted(p) ==
  p.ingestMaxRetries > 0 /\ p.reconnectAttempt >= p.ingestMaxRetries

SpawnFails(r) ==
  \/ /\ request'.action = "start"
     /\ StartedNow(r)
     /\ request'.spawn = "spawn_throws"
  \/ /\ request'.action = "reconnect_timer"
     /\ request'.runId = r
     /\ request'.spawn = "spawn_throws"
     /\ ~Halted(pipelines[r])

ResearchEvents(r) ==
  SelectSeq(pipeEmitted', LAMBDA e : e.runId = r /\ e.type \in {"claim.researching",
                                                               "claim.updated"})

\* C13: once a run's cancellation token is triggered no research worker emits
\* claim.researching or claim.updated, whichever provider call it was
\* suspended at and whether the call returns or throws; no worker is started
\* afterwards and the claims still queued are dropped without emission.
C13_NoResearchAfterAbort ==
  [][ \A r \in RunIds :
        (Created(r) /\ pipelines'[r].aborted)
          => /\ ResearchEvents(r) = <<>>
             /\ pipelines'[r].researchQueue = <<>>
             /\ pipelines'[r].workers \subseteq pipelines[r].workers
    ]_vars

C13_Witness ==
  \E r \in RunIds :
    /\ Created(r)
    /\ pipelines[r].aborted
    /\ request.action \in {"provider_returns", "provider_throws"}
    /\ request.runId = r
    /\ pipelines[r].claimIndex > runLog[r].researching
    /\ pipelines[r].workers # {}

ResearchingIds(r) ==
  LET started == SelectSeq(pipeEmitted', LAMBDA e : e.runId = r /\ e.type = "claim.researching")
  IN [i \in DOMAIN started |-> started[i].claimId]

EventsOf(r) == SelectSeq(pipeEmitted', LAMBDA e : e.runId = r)

\* C14: once a run has emitted pipeline.stopped its pipeline emits no further
\* event of any type, also when a transcription call that was in flight at
\* stop time completes afterwards, and it creates no claim.
C14_SilentAfterStopped ==
  [][ \A r \in RunIds :
        (Created(r) /\ runLog[r].stopped >= 1)
          => /\ EventsOf(r) = <<>>
             /\ pipelines'[r].claimIndex = pipelines[r].claimIndex
             /\ pipelines'[r].transcriptionQueue = <<>>
    ]_vars

C14_Witness ==
  \E r \in RunIds :
    /\ runLog[r].stopped = 1
    /\ request.action = "transcription_throws"
    /\ request.runId = r
    /\ runLog[r].chunks >= 2

AudioChunks(r) ==
  SelectSeq(pipeEmitted', LAMBDA e : e.runId = r /\ e.type = "audio.chunk")

\* C19: the audio.chunk events of a run carry chunkIndex 0, 1, 2, ... without
\* gap or repeat, each chunk is exactly chunkBytes long, startSec is
\* chunkIndex * chunkSeconds and endSec is startSec + chunkSeconds, however the
\* audio is split into data callbacks and across reconnects.
C19_ChunkSequence ==
  /\ [](\A r \in RunIds :
          Created(r) => /\ pipelines[r].bufferedAudio \in 0..(chunkBytes - 1)
                        /\ pipelines[r].chunkIndex = runLog[r].chunks)
  /\ [][ \A r \in RunIds :
           \A i \in DOMAIN AudioChunks(r) :
             /\ AudioChunks(r)[i].chunkIndex = runLog[r].chunks + i - 1
             /\ AudioChunks(r)[i].bytes = chunkBytes
             /\ AudioChunks(r)[i].startSec = AudioChunks(r)[i].chunkIndex * chunkSeconds
             /\ AudioChunks(r)[i].endSec = AudioChunks(r)[i].startSec + chunkSeconds
       ]_vars

C19_Witness ==
  \E r \in RunIds :
    /\ runLog[r].chunks = 2
    /\ request.action = "audio_data"
    /\ request.attempt = 2
    /\ \E i \in DOMAIN pipeEmitted :
         pipeEmitted[i].type = "audio.chunk" /\ pipeEmitted[i].chunkIndex = 1
    /\ pipelines[r].bufferedAudio > 0

ReconnectEvents(r) ==
  SelectSeq(pipeEmitted', LAMBDA e : e.runId = r /\ e.type \in {"pipeline.reconnect_scheduled",
                                                               "pipeline.reconnect_started",
                                                               "pipeline.reconnect_succeeded"})

\* the ffmpeg stdout handler of this step accepted its data
DataAccepted(r) ==
  /\ request'.action = "audio_data"
  /\ request'.runId = r
  /\ pipelines[r].running
  /\ isCurrentAttempt(pipelines[r], request'.attempt)

\* C20: a run's reconnect events come in the order scheduled, started,
\* succeeded; succeeded is emitted for the first data the newest attempt
\* delivers after reconnect_started, never for data of an older attempt and at
\* most once per attempt, and reconnectAttempt is 0 after it.
C20_ReconnectOrder ==
  [][ \A r \in RunIds :
        /\ Len(ReconnectEvents(r)) <= 1
        /\ \A i \in DOMAIN ReconnectEvents(r) :
             /\ ReconnectEvents(r)[i].type = "pipeline.reconnect_scheduled"
                  => runLog[r].reconnect \in {"none", "pipeline.reconnect_started",
                                              "pipeline.reconnect_succeeded"}
             /\ ReconnectEvents(r)[i].type = "pipeline.reconnect_started"
                  => runLog[r].reconnect = "pipeline.reconnect_scheduled"
             /\ ReconnectEvents(r)[i].type = "pipeline.reconnect_succeeded"
                  => /\ runLog[r].reconnect = "pipeline.reconnect_started"
                     /\ DataAccepted(r)
                     /\ request'.attempt = Len(pipelines[r].attempts)
                     /\ pipelines'[r].reconnectAttempt = 0
        /\ (Created(r) /\ DataAccepted(r))
             => /\ ~pipelines'[r].reconnectSuccessPending
                /\ pipelines[r].reconnectSuccessPending
                     => [i \in DOMAIN ReconnectEvents(r) |-> ReconnectEvents(r)[i].type]
                          = <<"pipeline.reconnect_succeeded">>
    ]_vars

C20_Witness ==
  \E r \in RunIds :
    /\ runLog[r].reconnect = "pipeline.reconnect_succeeded"
    /\ request.action = "audio_data"
    /\ request.attempt = 2
    /\ pipelines[r].reconnectAttempt = 0
    /\ \E i \in DOMAIN pipeEmitted : pipeEmitted[i].type = "pipeline.reconnect_succeeded"

\* C16: at most one transcription call is in flight per run, for every
\* interleaving of audio arrival, transcription completion and watchdog ticks.
C16_OneTranscriptionInFlight ==
  \A r \in RunIds : Created(r) => Cardinality(pipelines[r].calls) <= 1

\* ------------------------------------------------- properties: event order
\* the lifecycle events broadcast for claim c before the i-th event of this step
Before(c, i) ==
  history[c] \cup {emitted'[j].type : j \in {k \in 1..(i - 1) : emitted'[k].claimId = c}}

IsOutputStar(type) ==
  type \in {"claim.output_approved", "claim.output_rejected"} \cup PackageEventTypes

\* C17: for every claim id claim.detected is broadcast before any
\* claim.researching or claim.updated, and a claim.updated before any
\* claim.output_* event.
C17_CausalOrder ==
  [][ \A i \in DOMAIN emitted' :
        /\ emitted'[i].type \in {"claim.researching", "claim.updated"}
             => "claim.detected" \in Before(emitted'[i].claimId, i)
        /\ IsOutputStar(emitted'[i].type)
             => "claim.updated" \in Before(emitted'[i].claimId, i)
    ]_vars

StrictlyIncreasing(seq) == \A i, j \in DOMAIN seq : i < j => seq[i] < seq[j]

\* C18: the seq values written to a subscriber are strictly increasing: the
\* replay it gets on subscribing (the events after its Last-Event-ID, or the
\* most recent ones when it gives none) is followed by every event broadcast
\* while it stays subscribed.
C18_SeqStrictlyIncreasing ==
  /\ [](\A k \in Subscribers : StrictlyIncreasing(received[k]))
  /\ [][ \A k \in Subscribers :
           /\ (k \in sseClients' \ sseClients)
                => /\ \A i \in DOMAIN received'[k] :
                        \E h \in DOMAIN eventHistory : eventHistory[h] = received'[k][i]
                   /\ IF request'.lastEventId.given
                        THEN /\ \A i \in DOMAIN received'[k] :
                                  received'[k][i] > request'.lastEventId.id
                             /\ \A h \in DOMAIN eventHistory :
                                  eventHistory[h] > request'.lastEventId.id
                                    => \E i \in DOMAIN received'[k] :
                                         received'[k][i] = eventHistory[h]
                      ELSE received'[k] = LastN(RecentLimit, eventHistory)
           /\ (k \in sseClients /\ eventSeq' # eventSeq)
                => received'[k] = Append(received[k], eventSeq')
       ]_vars

C18_Witness ==
  \E k \in Subscribers :
    /\ k \in sseClients
    /\ Len(received[k]) > RecentLimit
    /\ received[k][1] > 1
    /\ received[k][Len(received[k])] = eventSeq

\* ------------------------------------------------- properties: supervisor
ScheduledNow(r) ==
  SelectSeq(pipeEmitted', LAMBDA e : e.runId = r /\ e.type = "pipeline.reconnect_scheduled")

\* C21: with reconnection enabled and ingestMaxRetries = M > 0, every attempt
\* that ends raises reconnectAttempt by 1; while the count stays within M a
\* reconnect is scheduled, at most M in a row without a reconnect_succeeded;
\* when the count exceeds M the run stops with reason reconnect_exhausted and
\* no reconnect is scheduled then or later.
C21_RetryBudget ==
  [][ \A r \in RunIds :
        (Created(r) /\ pipelines[r].ingestReconnectEnabled /\ pipelines[r].ingestMaxRetries > 0)
          => /\ AttemptEnds(r)
                  => /\ pipelines'[r].reconnectAttempt = pipelines[r].reconnectAttempt + 1
                     /\ IF pipelines[r].reconnectAttempt + 1 > pipelines[r].ingestMaxRetries
                          THEN /\ StopsOnce(r, {"reconnect_exhausted"})
                               /\ ScheduledNow(r) = <<>>
                               /\ ~pipelines'[r].reconnectTimer
                        ELSE /\ Len(ScheduledNow(r)) = 1
                             /\ ScheduledNow(r)[1].attempt = pipelines[r].reconnectAttempt + 1
                             /\ pipelines'[r].reconnectTimer
                             /\ runLog'[r].stopped = 0
             /\ runLog'[r].scheduledInRow <= pipelines[r].ingestMaxRetries
             /\ ScheduledNow(r) # <<>> => (AttemptEnds(r) /\ runLog[r].stopped = 0)
    ]_vars

C21_Witness ==
  \E r \in RunIds :
    /\ Created(r)
    /\ pipelines[r].ingestMaxRetries = 2
    /\ runLog[r].scheduledInRow = 2
    /\ runLog[r].stopped = 1
    /\ Len(pipelines[r].attempts) = 4
    /\ \E i \in DOMAIN pipeEmitted :
         /\ pipeEmitted[i].type = "pipeline.stopped"
         /\ pipeEmitted[i].reason = "reconnect_exhausted"


\* the current attempt of run r is live: the run is in state running and the
\* attempt has not been finalized
LiveAttempt(r) ==
  /\ Created(r)
  /\ pipelines[r].running /\ pipelines[r].state = "running"
  /\ pipelines[r].currentAttempt # NullInt
  /\ ~pipelines[r].attempts[pipelines[r].currentAttempt].finalized

WatchdogTick(r) == request'.action = "stall_watchdog" /\ request'.runId = r

\* C22: a watchdog tick that measures idleMs >= ingestStallTimeoutMs while the
\* run is in state running with a live attempt emits pipeline.ingest_stalled
\* carrying that idleMs, tears the attempt down, finalizes it as process_error
\* and, with reconnection enabled and retries left, emits
\* pipeline.reconnect_scheduled next; a tick below the threshold, or in any
\* other state, changes nothing and emits nothing.
C22_StallWatchdog ==
  [][\A r \in RunIds : WatchdogTick(r) =>
       IF LiveAttempt(r) /\ request'.idleMs >= ingestStallTimeoutMs
         THEN LET a == pipelines[r].currentAttempt
              IN /\ Len(pipeEmitted') >= 1
                 /\ pipeEmitted'[1].type = "pipeline.ingest_stalled"
                 /\ pipeEmitted'[1].idleMs = request'.idleMs
                 /\ pipelines'[r].attempts[a].teardownDone
                 /\ pipelines'[r].attempts[a].finalized
                 /\ pipelines'[r].attempts[a].processError
                 /\ (pipelines[r].ingestReconnectEnabled /\ ~RetriesExhausted(pipelines[r])
                       => /\ Len(pipeEmitted') >= 2
                          /\ pipeEmitted'[2].type = "pipeline.reconnect_scheduled"
                          /\ pipeEmitted'[2].reason = "process_error"
                          /\ pipelines'[r].state = "reconnecting")
         ELSE pipelines' = pipelines /\ pipeEmitted' = <<>>]_vars

\* a tick measured exactly the threshold on a live attempt and a reconnect was
\* scheduled after the stall event
C22_Witness ==
  /\ request.action = "stall_watchdog"
  /\ request.idleMs = ingestStallTimeoutMs
  /\ Len(pipeEmitted) = 2
  /\ pipeEmitted[1].type = "pipeline.ingest_stalled"
  /\ pipeEmitted[2].type = "pipeline.reconnect_scheduled"


\* no PCM byte of run r has arrived: its first attempt is the current one and
\* nothing has been buffered or cut into a chunk
NoPcmYet(r) ==
  /\ Created(r)
  /\ Len(pipelines[r].attempts) = 1
  /\ pipelines[r].chunkIndex = 0
  /\ pipelines[r].bufferedAudio = 0

\* a process of the run's live first attempt reports 'error' (what spawn does
\* when the executable cannot be started) before any PCM byte
SpawnErrorCallback(r) ==
  /\ request'.action = "error"
  /\ request'.runId = r
  /\ NoPcmYet(r)
  /\ pipelines[r].running
  /\ ~pipelines[r].attempts[1].finalized

\* C23: a subprocess that cannot be spawned before any PCM byte of the run has
\* arrived is fatal, whether spawn throws or the process reports 'error':
\* pipeline.error is emitted, then pipeline.stopped, the run is no longer
\* running and no reconnect is scheduled.
C23_SpawnFailureFatal ==
  [][\A r \in RunIds :
       (request'.action = "start" /\ SpawnFails(r)) \/ SpawnErrorCallback(r) =>
         /\ \E i, j \in 1..Len(pipeEmitted') :
              /\ i < j
              /\ pipeEmitted'[i].type = "pipeline.error"
              /\ pipeEmitted'[j].type = "pipeline.stopped"
         /\ \A i \in 1..Len(pipeEmitted') :
              pipeEmitted'[i].type # "pipeline.reconnect_scheduled"
         /\ ~pipelines'[r].running
         /\ ~pipelines'[r].reconnectTimer]_vars


\* ------------------------------------------- specification: reconnect delay
\* computeReconnectDelayMs applied to drawn inputs.  request holds the inputs
\* (the two options as passed to createPipeline, the attempt number and the
\* Math.random() draw in thousandths), response the computed delay.

\* the state after construction, with the inputs of a computation drawn
InitInputs(inputs) ==
  /\ claims = [c \in ClaimIds |-> NoClaim]
  /\ packagesByClaim = [c \in ClaimIds |-> NoPackage]
  /\ nextPackageId = 1
  /\ jobsByClaimId = [c \in ClaimIds |-> NullInt]
  /\ jobsByRenderJobId = <<>>
  /\ jobsByIdempotencyKey = {}
  /\ research = [c \in ClaimIds |-> "none"]
  /\ claimPayload = [c \in ClaimIds |-> [claimCategory |-> "null", claimTypeTag |-> "null"]]
  /\ emitted = <<>>
  /\ outBefore = [c \in ClaimIds |-> NoEvent]
  /\ request \in inputs
  /\ response = NoResponse
  /\ approvalVersion = [c \in ClaimIds |-> NullInt]
  /\ history = [c \in ClaimIds |-> {}]
  /\ pipelines = [r \in RunIds |-> NoPipeline]
  /\ activePipeline = NullInt
  /\ currentRunId = NullInt
  /\ pipeEmitted = <<>>
  /\ runLog = [r \in RunIds |-> NoRunLog]
  /\ eventSeq = 0
  /\ eventHistory = <<>>
  /\ sseClients = {}
  /\ received = [k \in Subscribers |-> <<>>]

\* the function is applied once to the drawn inputs
Applied(result) ==
  /\ response = NoResponse
  /\ response' = result
  /\ UNCHANGED <<claims, packagesByClaim, nextPackageId, jobsByClaimId, jobsByRenderJobId,
                 jobsByIdempotencyKey, research, claimPayload, emitted, outBefore, request,
                 approvalVersion, history, pipeVars, sseVars>>

\* Number.parseInt of an option; an absent, non-integer or non-positive option
\* (here: any value <= 0) gives the fallback
toFinitePositiveInt(value, fallback, max) ==
  IF value <= 0 THEN fallback ELSE Min(value, max)

ingestRetryBaseMs(option) == toFinitePositiveInt(option, 1000, 120000)

ingestRetryMaxMs(baseOption, maxOption) ==
  Max(ingestRetryBaseMs(baseOption), toFinitePositiveInt(maxOption, 15000, 600000))

\* base * 2 ** exponent as far as it matters below: doubling stops once the
\* value has reached cap, so the result is exact while it is below cap and at
\* least cap otherwise (the double of the code never overflows)
RECURSIVE doubled(_, _, _)
doubled(base, exponent, cap) ==
  IF exponent = 0 \/ base >= cap THEN base ELSE doubled(2 * base, exponent - 1, cap)

\* Math.min(ingestRetryMaxMs, ingestRetryBaseMs * 2 ** Math.max(0, attemptNo - 1))
backoffMs(attemptNo, base, maxMs) == Min(maxMs, doubled(base, Max(0, attemptNo - 1), maxMs))

\* thousandths in which Math.random() is drawn: a draw is random / RandomScale
RandomScale == 1000

\* Math.floor(Math.random() * Math.min(500, Math.max(80, backoff * 0.2)))
jitterMs(backoff, random) == (random * Min(2500, Max(400, backoff))) \div (5 * RandomScale)

\* a delay without the floor of 250 ms
computeReconnectDelayMs_NoFloor(attemptNo, base, maxMs, random) ==
  backoffMs(attemptNo, base, maxMs) + jitterMs(backoffMs(attemptNo, base, maxMs), random)

computeReconnectDelayMs(attemptNo, base, maxMs, random) ==
  Max(250, backoffMs(attemptNo, base, maxMs)
             + jitterMs(backoffMs(attemptNo, base, maxMs), random))

MaxAttemptNo == 8
BaseOptions == {0, 1, 100, 1000, 120000, 200000}
MaxOptions == {0, 50, 15000, 600000}
RandomDraws == {0, 500, 999}

DelayInputs ==
  [action : {"computeReconnectDelayMs"}, attemptNo : 1..MaxAttemptNo,
   baseOption : BaseOptions, maxOption : MaxOptions, random : RandomDraws]

ComputeDelay ==
  /\ request.action = "computeReconnectDelayMs"
  /\ Applied([delayMs |-> computeReconnectDelayMs(
                            request.attemptNo, ingestRetryBaseMs(request.baseOption),
                            ingestRetryMaxMs(request.baseOption, request.maxOption),
                            request.random)])

NextDelay == ComputeDelay

InitDelay == InitInputs(DelayInputs)

SpecDelay == InitDelay /\ [][NextDelay]_vars


DelayComputed == request.action = "computeReconnectDelayMs" /\ response # NoResponse

DelayCap == ingestRetryMaxMs(request.baseOption, request.maxOption)

\* base * 2^(n-1) for the drawn inputs: exact while below DelayCap, and some
\* value between DelayCap and base * 2^(n-1) beyond
Doubled == doubled(ingestRetryBaseMs(request.baseOption), request.attemptNo - 1, DelayCap)

\* delay <= min(maxMs * 1.2, base * 2^(n-1) * 1.2) + 500, in fifths of a ms
WithinUpperBound == 5 * response.delayMs <= Min(6 * DelayCap, 6 * Doubled) + 2500

\* C24 as stated: the reconnect delay of attempt n lies in
\* [max(250, base*2^(n-1)), min(maxMs*1.2, base*2^(n-1)*1.2) + 500].
C24_DelayRangeAsStated ==
  DelayComputed => response.delayMs >= Max(250, Doubled) /\ WithinUpperBound

\* C24, amended: the reconnect delay of attempt n lies in
\* [max(250, min(maxMs, base*2^(n-1))), min(maxMs*1.2, base*2^(n-1)*1.2) + 500]:
\* the lower end is capped by ingestRetryMaxMs like the backoff itself.
C24_DelayRange ==
  DelayComputed => response.delayMs >= Max(250, Min(DelayCap, Doubled)) /\ WithinUpperBound

\* a delay was computed for an attempt whose doubled base exceeds the cap, and
\* it is below the doubled base
C24_Witness ==
  /\ DelayComputed
  /\ Doubled > DelayCap
  /\ response.delayMs < Doubled
  /\ response.delayMs > DelayCap


\* ------------------------------------------------- specification: policy
\* evaluateClaimPolicy applied to drawn claim snapshots.  request holds the
\* snapshot (the fields the policy reads), response the policy it returns.
UnkeyedConflict ==
  <<[publisher |-> "", url |-> "", textualRating |-> RatingFalse],
    [publisher |-> "", url |-> "", textualRating |-> RatingMostlyTrue]>>
AgreeingSources ==
  <<[publisher |-> "politifact", url |-> "u1", textualRating |-> RatingFalse],
    [publisher |-> "", url |-> "u3", textualRating |-> {"false", "mostly false"}]>>

PolicyInputs ==
  [action : {"evaluateClaimPolicy"},
   claim : [status : {"null", "pending_research", "researching", "researched",
                      "needs_manual_research"},
            outputApprovalState : {"pending", "approved", "rejected"},
            confidence : {59, 60, 74, 75, 79, 80},
            claimTypeTag : ClaimTypeTags \cup {"null"},
            claimCategory : Categories,
            googleEvidenceState : {"none", "matched", "error"},
            fredEvidenceState : {"not_applicable", "ambiguous", "matched", "error"},
            sources : {<<>>, OneSource, ConflictingSources, UnkeyedConflict,
                       AgreeingSources}]]

EvaluatePolicy ==
  /\ request.action = "evaluateClaimPolicy"
  /\ Applied(evaluateClaimPolicy(request.claim))

NextPolicy == EvaluatePolicy

InitPolicy == InitInputs(PolicyInputs)

SpecPolicy == InitPolicy /\ [][NextPolicy]_vars

PolicyEvaluated == request.action = "evaluateClaimPolicy" /\ response # NoResponse

\* C25: approvalBlockReason follows the decision order rejected_locked;
\* still_researching / not_researched for a status other than researched; the
\* reason of the evidence status; below_threshold when none of these applies
\* and confidence is under the threshold of the tag (0.60 numeric_factual, 0.75
\* simple_policy, 0.80 other); approvalEligibility holds exactly when the
\* reason is null.
C25_ApprovalBlockReasonOrder ==
  PolicyEvaluated =>
    LET c == request.claim
        threshold == CASE c.claimTypeTag = "numeric_factual" -> 60
                       [] c.claimTypeTag = "simple_policy" -> 75
                       [] OTHER -> 80
        expected ==
          IF c.outputApprovalState = "rejected" THEN "rejected_locked"
          ELSE IF c.status \in {"pending_research", "researching"} THEN "still_researching"
          ELSE IF c.status # "researched" THEN "not_researched"
          ELSE IF response.evidenceStatus = "provider_degraded" THEN "provider_degraded"
          ELSE IF response.evidenceStatus = "insufficient" THEN "insufficient_sources"
          ELSE IF response.evidenceStatus = "conflicted" THEN "conflicted_sources"
          ELSE IF c.confidence < threshold THEN "below_threshold"
          ELSE "null"
    IN /\ response.policyThreshold = threshold
       /\ response.approvalBlockReason = expected
       /\ response.approvalEligibility = (response.approvalBlockReason = "null")

\* a researched claim with conflicting sources and a confidence under its
\* threshold was evaluated: the evidence reason comes first
C25_Witness ==
  /\ PolicyEvaluated
  /\ request.claim.status = "researched"
  /\ request.claim.outputApprovalState = "pending"
  /\ request.claim.claimTypeTag = "simple_policy"
  /\ request.claim.confidence = 74
  /\ response.approvalBlockReason = "conflicted_sources"

\* C26: evidenceStatus is researching for pending_research / researching;
\* else provider_degraded when googleEvidenceState is error; else, for an
\* economic claim, provider_degraded when fredEvidenceState is error and
\* insufficient when FRED has not matched and there is no independent source;
\* for any other claim insufficient when there is no independent source; else
\* conflicted when the ratings of the sources fall into at least two of the
\* buckets false, misleading, supported; else sufficient.
C26_EvidenceStatusOrder ==
  PolicyEvaluated =>
    LET c == request.claim
        count == response.independentSourceCount
        buckets == {ratingBucket(c.sources[i].textualRating) : i \in DOMAIN c.sources}
                     \cap {"false", "misleading", "supported"}
        expected ==
          IF c.status \in {"pending_research", "researching"} THEN "researching"
          ELSE IF c.googleEvidenceState = "error" THEN "provider_degraded"
          ELSE IF c.claimCategory = "economic" /\ c.fredEvidenceState = "error"
            THEN "provider_degraded"
          ELSE IF c.claimCategory = "economic" /\ c.fredEvidenceState # "matched" /\ count < 1
            THEN "insufficient"
          ELSE IF c.claimCategory # "economic" /\ count < 1 THEN "insufficient"
          ELSE IF Cardinality(buckets) >= 2 THEN "conflicted"
          ELSE "sufficient"
    IN /\ response.evidenceStatus = expected
       /\ response.evidenceConflict = (Cardinality(buckets) >= 2)

\* an economic claim with a FRED match and no source was found sufficient
C26_Witness ==
  /\ PolicyEvaluated
  /\ request.claim.claimCategory = "economic"
  /\ request.claim.fredEvidenceState = "matched"
  /\ request.claim.sources = <<>>
  /\ response.evidenceStatus = "sufficient"


StoredClaims == {c \in ClaimIds : claims[c].exists}

\* C27: a stored snapshot with exportEligibility is approved and has
\* approvalEligibility; its exportBlockReason is its approvalBlockReason when
\* that is not null, and is not_approved exactly when approvalBlockReason is
\* null and the claim is not approved.
C27_ExportImpliesApproved ==
  \A c \in StoredClaims :
    /\ claims[c].exportEligibility =>
         claims[c].outputApprovalState = "approved" /\ claims[c].approvalEligibility
    /\ claims[c].approvalBlockReason # "null" =>
         claims[c].exportBlockReason = claims[c].approvalBlockReason
    /\ claims[c].exportBlockReason = "not_approved" <=>
         (claims[c].approvalBlockReason = "null" /\ claims[c].outputApprovalState # "approved")
    /\ claims[c].exportEligibility = (claims[c].exportBlockReason = "null")

\* a snapshot that claim.output_approved made export eligible
C27_Witness ==
  \E c \in StoredClaims :
    /\ claims[c].exportEligibility
    /\ claims[c].exportBlockReason = "null"
    /\ claims[c].outputApprovalState = "approved"
    /\ claims[c].approvedVersion # NullInt

PolicyFields(claim) ==
  [policyThreshold |-> claim.policyThreshold,
   independentSourceCount |-> claim.independentSourceCount,
   evidenceConflict |-> claim.evidenceConflict,
   evidenceStatus |-> claim.evidenceStatus,
   approvalEligibility |-> claim.approvalEligibility,
   approvalBlockReason |-> claim.approvalBlockReason,
   exportEligibility |-> claim.exportEligibility,
   exportBlockReason |-> claim.exportBlockReason]

\* C28: the derived policy fields of every stored snapshot are those the
\* policy gives on that snapshot, after every event updateClaimState applies;
\* evaluating the policy again on the snapshot with its policy merged gives
\* the same result.
C28_PolicyFieldsFresh ==
  \A c \in StoredClaims :
    /\ PolicyFields(claims[c]) = PolicyFields(evaluateClaimPolicy(claims[c]))
    /\ evaluateClaimPolicy(withPolicy(claims[c])) = evaluateClaimPolicy(claims[c])

\* a snapshot whose policy fields changed with an event: claim.updated made
\* a detected claim approval eligible
C28_Witness ==
  \E c \in StoredClaims :
    /\ claims[c].approvalEligibility
    /\ claims[c].status = "researched"
    /\ claims[c].evidenceStatus = "sufficient"
    /\ {"claim.detected", "claim.updated"} \subseteq history[c]


\* ------------------------------------------ specification: research verdict
\* The verdict researchClaim puts into claim.updated, for drawn provider
\* results.  request holds the claim category, the fact-check result, the FRED
\* and Congress states as their clients return them and the verifier's
\* normalized answer; response holds the results researchClaim worked with and
\* the verdict of the event.
SAFE_FALLBACK == [aiVerdict |-> "unverified", aiConfidence |-> 0, evidenceBasis |-> "null"]

\* the verifier lowers a confidence above 0.6 that rests on neither a
\* fact-check verdict nor a FRED match
clampConfidence(result, googleFcVerdict, fredState) ==
  IF googleFcVerdict \in {"null", "unverified"} /\ fredState # "matched"
     /\ result.aiConfidence > 60
    THEN [result EXCEPT !.aiConfidence = 60]
    ELSE result

\* a verdict that prefers the verifier's answer to the fact-check verdict
authoritativeVerdict_AiFirst(result, fredState, congressState, aiResult) ==
  IF fredState = "matched" THEN aiResult.aiVerdict
  ELSE IF congressState = "matched" /\ aiResult.aiConfidence >= 40 THEN aiResult.aiVerdict
  ELSE IF aiResult.evidenceBasis \notin {"null", "general_knowledge"}
          /\ aiResult.aiConfidence >= 50
    THEN aiResult.aiVerdict
  ELSE IF result.verdict # "unverified" /\ result.confidence >= 50 THEN result.verdict
  ELSE "unverified"

authoritativeVerdict(result, fredState, congressState, aiResult) ==
  IF result.verdict # "unverified" /\ result.confidence >= 50 THEN result.verdict
  ELSE IF fredState = "matched" THEN aiResult.aiVerdict
  ELSE IF congressState = "matched" /\ aiResult.aiConfidence >= 40 THEN aiResult.aiVerdict
  ELSE IF aiResult.evidenceBasis \notin {"null", "general_knowledge"}
          /\ aiResult.aiConfidence >= 50
    THEN aiResult.aiVerdict
  ELSE "unverified"

\* FRED is asked for economic claims only, Congress for political and
\* legislative ones
fredStateFor(category, fredState) ==
  IF category = "economic" THEN fredState ELSE "not_applicable"

congressStateFor(category, congressState) ==
  IF category \in {"political", "legislative"} THEN congressState ELSE "not_applicable"

ResearchOutcome(result, fredState, congressState, aiResult) ==
  [fredState |-> fredState, congressState |-> congressState, aiResult |-> aiResult,
   verdict |-> authoritativeVerdict(result, fredState, congressState, aiResult)]

researchVerdict(category, result, fredState, congressState, normalized) ==
  ResearchOutcome(result, fredStateFor(category, fredState),
                  congressStateFor(category, congressState),
                  IF normalized = SAFE_FALLBACK THEN SAFE_FALLBACK
                  ELSE clampConfidence(normalized, result.verdict,
                                       fredStateFor(category, fredState)))

Verdicts == {"true", "false", "misleading", "unverified"}

VerdictInputs ==
  [action : {"researchClaim"},
   claimCategory : {"general", "economic", "political", "legislative"},
   result : [verdict : Verdicts, confidence : {0, 49, 50, 90}],
   fredState : {"matched", "ambiguous", "error"},
   congressState : {"matched", "none"},
   normalized : {SAFE_FALLBACK} \cup
                [aiVerdict : {"true", "false", "unverified"},
                 aiConfidence : {39, 40, 49, 50, 70},
                 evidenceBasis : {"general_knowledge", "fact_check_match", "mixed"}]]

ResearchVerdict ==
  /\ request.action = "researchClaim"
  /\ Applied(researchVerdict(request.claimCategory, request.result, request.fredState,
                             request.congressState, request.normalized))

NextVerdict == ResearchVerdict

InitVerdict == InitInputs(VerdictInputs)

SpecVerdict == InitVerdict /\ [][NextVerdict]_vars

VerdictSelected == request.action = "researchClaim" /\ response # NoResponse

\* C29: the verdict of the research worker's claim.updated is the fact-check
\* verdict when that is not unverified and has confidence >= 0.5; else the
\* verifier's aiVerdict when FRED matched; else aiVerdict when Congress matched
\* and aiConfidence >= 0.4; else aiVerdict when evidenceBasis is neither
\* general_knowledge nor null and aiConfidence >= 0.5; else unverified.
C29_VerdictPriority ==
  VerdictSelected =>
    LET fc == request.result
        ai == response.aiResult
    IN response.verdict =
         CASE fc.verdict # "unverified" /\ fc.confidence >= 50 -> fc.verdict
           [] ~(fc.verdict # "unverified" /\ fc.confidence >= 50)
                /\ response.fredState = "matched" -> ai.aiVerdict
           [] ~(fc.verdict # "unverified" /\ fc.confidence >= 50)
                /\ response.fredState # "matched"
                /\ response.congressState = "matched" /\ ai.aiConfidence >= 40 -> ai.aiVerdict
           [] ~(fc.verdict # "unverified" /\ fc.confidence >= 50)
                /\ response.fredState # "matched"
                /\ ~(response.congressState = "matched" /\ ai.aiConfidence >= 40)
                /\ ai.evidenceBasis \notin {"general_knowledge", "null"}
                /\ ai.aiConfidence >= 50 -> ai.aiVerdict
           [] OTHER -> "unverified"

\* a confident fact-check verdict won over a different verdict of the verifier
\* backed by a FRED match
C29_Witness ==
  /\ VerdictSelected
  /\ request.result.verdict = "false"
  /\ request.result.confidence = 50
  /\ response.fredState = "matched"
  /\ response.aiResult.aiVerdict = "true"
  /\ response.verdict = "false"


\* a provider call of the worker of claim request'.claimId raised an error
ResearchFailed(r) == request'.action = "provider_throws" /\ request'.runId = r

ClaimUpdates(r, claimId) ==
  SelectSeq(pipeEmitted',
            LAMBDA e : e.runId = r /\ e.type = "claim.updated" /\ e.claimId = claimId)

\* C30: an error raised at any provider call of a claim's research while the
\* run is not cancelled makes the worker emit exactly one claim.updated for
\* the claim, with status needs_manual_research, verdict unverified and
\* confidence 0, googleEvidenceState error and the FRED / Congress states error
\* or not_applicable by category; the run goes on (no pipeline.error, no
\* pipeline.stopped) and the worker's slot is released.
C30_ResearchErrorReported ==
  [][\A r \in RunIds :
       ResearchFailed(r) /\ ~pipelines[r].aborted =>
         LET worker == CHOOSE w \in pipelines[r].workers : w.claimId = request'.claimId
             updates == ClaimUpdates(r, request'.claimId)
         IN /\ Len(updates) = 1
            /\ updates[1].status = "needs_manual_research"
            /\ updates[1].verdict = "unverified"
            /\ updates[1].confidence = 0
            /\ updates[1].googleEvidenceState = "error"
            /\ updates[1].fredEvidenceState =
                 (IF worker.claimCategory = "economic" THEN "error" ELSE "not_applicable")
            /\ updates[1].congressEvidenceState =
                 (IF worker.claimCategory \in {"political", "legislative"} THEN "error"
                  ELSE "not_applicable")
            /\ \A i \in DOMAIN pipeEmitted' :
                 pipeEmitted'[i].type \notin {"pipeline.error", "pipeline.stopped"}
            /\ pipelines'[r].running = pipelines[r].running
            /\ worker \notin pipelines'[r].workers
            /\ pipelines'[r].researchInFlight = Cardinality(pipelines'[r].workers)
            /\ pipelines'[r].researchInFlight
                 = pipelines[r].researchInFlight - 1
                     + (Len(pipelines[r].researchQueue) - Len(pipelines'[r].researchQueue))]_vars

\* the FRED lookup of an economic claim raised an error in a running pipeline
\* and the claim was reported
C30_Witness ==
  /\ request.action = "provider_throws"
  /\ \E i \in DOMAIN pipeEmitted :
       /\ pipeEmitted[i].type = "claim.updated"
       /\ pipeEmitted[i].claimId = request.claimId
       /\ pipeEmitted[i].status = "needs_manual_research"
       /\ pipeEmitted[i].fredEvidenceState = "error"
  /\ \E r \in RunIds : Created(r) /\ pipelines[r].running


\* --------------------------------------------- specification: claims and runs
\* Two successive runs and the claim events the server can be handed for them:
\* claim.detected and claim.updated, stamped with the id of any run created so
\* far or with no run id, next to POST /start, POST /stop and approve-output.
FedEventTypes == {"claim.detected", "claim.updated"}
MaxFedVersion == 3

FedEvent(c, type, runId) ==
  CASE type = "claim.detected" ->
         [BaseEvent(type, c) EXCEPT !.runId = runId, !.status = "pending_research",
                                    !.confidence = 70, !.claimCategory = "general",
                                    !.claimTypeTag = "numeric_factual"]
    [] type = "claim.updated" ->
         [BaseEvent(type, c) EXCEPT !.runId = runId, !.status = "researched",
                                    !.confidence = 70, !.sources = OneSource,
                                    !.googleEvidenceState = "matched",
                                    !.fredEvidenceState = "not_applicable"]
    [] OTHER -> [BaseEvent(type, c) EXCEPT !.runId = runId]

ClaimEventDelivered(c, type, runId) ==
  /\ IF runId = NullInt THEN TRUE ELSE Created(runId)
  /\ IF claims[c].exists /\ ~runFilterDrops(currentRunId, FedEvent(c, type, runId))
       THEN claims[c].version < MaxFedVersion ELSE TRUE
  /\ Commit(emitEvent(Store, FedEvent(c, type, runId)))
  /\ request' = [action |-> "event", type |-> type, claimId |-> c, runId |-> runId]
  /\ response' = NoResponse
  /\ UNCHANGED <<research, claimPayload, approvalVersion>>

NextRunClaims ==
  \/ \E body \in {"valid", "no_api_key"} : Start(body, "spawned", FALSE, 0, 3, MaxRuns)
  \/ Stop
  \/ \E c \in ClaimIds, type \in FedEventTypes, runId \in {NullInt} \cup RunIds :
       ClaimEventDelivered(c, type, runId)
  \/ \E c \in ClaimIds : ClaimAction("approve-output", c, "current", "null", FALSE, FALSE)

SpecRunClaims == Init /\ [][NextRunClaims]_vars


PipelineCreatedNow == \E r \in RunIds : pipelines'[r].created /\ ~pipelines[r].created

\* C31: a claim event that carries the id of another run than the current one
\* leaves the claim map unchanged; a POST /start that creates a pipeline
\* empties the claim map, the package store and the render-job store; so
\* while a run is current every stored snapshot belongs to it (or to no run).
C31_RunIsolation ==
  /\ [](currentRunId # NullInt =>
          \A c \in ClaimIds :
            claims[c].exists => claims[c].runId \in {NullInt, currentRunId})
  /\ [][ /\ (request'.action = "event" /\ currentRunId # NullInt
               /\ request'.runId \notin {NullInt, currentRunId})
             => claims' = claims
         /\ (request'.action = "start" /\ PipelineCreatedNow)
             => /\ \A c \in ClaimIds : /\ ~claims'[c].exists
                                       /\ ~packagesByClaim'[c].exists
                                       /\ jobsByClaimId'[c] = NullInt
                /\ jobsByRenderJobId' = <<>>
                /\ jobsByIdempotencyKey' = {}
     ]_vars

\* an event of run 1 met the claim of run 2, which has a package and a render
\* job of its own
C31_Witness ==
  /\ request.action = "event"
  /\ request.runId = 1
  /\ currentRunId = 2
  /\ \E c \in ClaimIds : /\ claims[c].exists /\ claims[c].runId = 2
                         /\ packagesByClaim[c].exists
                         /\ jobsByClaimId[c] # NullInt

\* ------------------------------------------- render service called directly
RenderVersions == {1, 2}

\* renderService.queueRender, from any caller
QueueRender(c, version, force) ==
  /\ Commit(queueRender(Store, c, version, force))
  /\ request' =
       LET existing == IF force THEN NullInt
                       ELSE IdempotencyLookup(Store, buildIdempotencyKey(c, version))
       IN [action |-> "queue_render", claimId |-> c, version |-> version, force |-> force,
           existing |-> existing,
           existingStatus |-> IF existing = NullInt THEN "null"
                              ELSE jobsByRenderJobId[existing].status]
  /\ response' = [code |-> NullInt,
                  renderJobId |-> queuedRenderJobId(Store, c, version, force)]
  /\ UNCHANGED <<research, claimPayload, approvalVersion>>

NextRender ==
  \/ \E c \in ClaimIds, version \in RenderVersions, force \in BOOLEAN :
       QueueRender(c, version, force)
  \/ \E jobId \in 1..MaxJobs : RenderReturns(jobId)
  \/ \E jobId \in 1..MaxJobs : RenderThrows(jobId)
  \/ \E jobId \in 1..MaxJobs : RenderRetry(jobId)

SpecRender == Init /\ [][NextRender]_vars

JobStoresUnchanged ==
  /\ jobsByRenderJobId' = jobsByRenderJobId
  /\ jobsByClaimId' = jobsByClaimId
  /\ jobsByIdempotencyKey' = jobsByIdempotencyKey

RenderQueuedEmitted ==
  \E i \in DOMAIN emitted' : emitted'[i].type = "claim.render_queued"

\* C32: a non-forced queueRender whose idempotency key already has a job that
\* is not failed returns that same job, stores no new job and emits no further
\* claim.render_queued; a second non-forced call changes nothing the first did
\* not; a non-forced call never adds a job for a key that has one; a forced
\* call always adds a distinct job under a key that carries its own nonce.
C32_QueueRenderIdempotent ==
  /\ [](\A c \in ClaimIds, version \in RenderVersions :
          LET once == queueRender(Store, c, version, FALSE)
          IN queueRender([once EXCEPT !.out = <<>>], c, version, FALSE)
               = [once EXCEPT !.out = <<>>])
  /\ [][request'.action = "queue_render" =>
          /\ (~request'.force /\ request'.existing # NullInt
                /\ request'.existingStatus # "failed")
               => /\ JobStoresUnchanged
                  /\ ~RenderQueuedEmitted
                  /\ response'.renderJobId = request'.existing
          /\ (~request'.force /\ request'.existing # NullInt)
               => /\ Len(jobsByRenderJobId') = Len(jobsByRenderJobId)
                  /\ response'.renderJobId = request'.existing
          /\ request'.force
               => /\ Len(jobsByRenderJobId') = Len(jobsByRenderJobId) + 1
                  /\ response'.renderJobId \notin DOMAIN jobsByRenderJobId
                  /\ jobsByRenderJobId'[response'.renderJobId].idempotencyKey[3] # NullInt
                  /\ \A j \in DOMAIN jobsByRenderJobId :
                       jobsByRenderJobId'[j].idempotencyKey
                         # jobsByRenderJobId'[response'.renderJobId].idempotencyKey
                  /\ RenderQueuedEmitted]_vars

C32_Witness ==
  /\ request.action = "queue_render"
  /\ ~request.force
  /\ request.existing = 1
  /\ request.existingStatus \in {"rendering", "ready"}
  /\ response.renderJobId = 1
  /\ Len(jobsByRenderJobId) = 2
  /\ jobsByRenderJobId[2].idempotencyKey[3] # NullInt
  /\ emitted = <<>>

\* ---------------------------------------------- pipeline: recent claim keys
CLAIM_RECENT_DEDUPE_TTL_MS == 600000
\* pipeline.mjs keeps up to 1000 keys; the map of the model is full at
\* MaxRecentKeys
MaxRecentKeys == 3
CLAIM_RECENT_DEDUPE_MAX == MaxRecentKeys

LowerCaseLetters == {"a", "e", "n", "o", "r", "s", "t", "x"}
Digit == <<"0", "1", "2", "3", "4", "5", "6", "7", "8", "9">>

toLowerCase(ch) == CASE ch = "T" -> "t" [] ch = "R" -> "r" [] OTHER -> ch

\* /[^a-z0-9\s]/ -> ' ' on one lowercased character
KeyChar(ch) ==
  IF toLowerCase(ch) \in LowerCaseLetters \cup {Digit[i] : i \in DOMAIN Digit} \cup {" "}
    THEN toLowerCase(ch) ELSE " "

normalizeClaimKey(value) ==
  trim(collapseSpaces([i \in DOMAIN value |-> KeyChar(value[i])]))

\* the entries the TTL pass leaves, then the newest CLAIM_RECENT_DEDUPE_MAX of them
DropOldest(keys) ==
  IF Len(keys) > CLAIM_RECENT_DEDUPE_MAX
    THEN SubSeq(keys, Len(keys) - CLAIM_RECENT_DEDUPE_MAX + 1, Len(keys))
  ELSE keys

pruneRecentClaimKeys(keys, nowMs) ==
  DropOldest(SelectSeq(keys, LAMBDA e : ~(nowMs - e.seenAtMs > CLAIM_RECENT_DEDUPE_TTL_MS)))

SeenAt(keys, key) ==
  IF \E i \in DOMAIN keys : keys[i].key = key
    THEN keys[CHOOSE i \in DOMAIN keys : keys[i].key = key].seenAtMs
  ELSE 0

\* recentClaimKeys.delete(key); recentClaimKeys.set(key, nowMs)
Remember(keys, key, nowMs) ==
  Append(SelectSeq(keys, LAMBDA e : e.key # key), [key |-> key, seenAtMs |-> nowMs])

\* markClaimSeenAndCheckDuplicate after its first prune
CheckDuplicate(pruned, key, nowMs) ==
  IF SeenAt(pruned, key) # 0 /\ nowMs - SeenAt(pruned, key) < CLAIM_RECENT_DEDUPE_TTL_MS
    THEN [duplicate |-> TRUE, keys |-> pruned]
  ELSE [duplicate |-> FALSE,
        keys |-> pruneRecentClaimKeys(Remember(pruned, key, nowMs), nowMs)]

markClaimSeenAndCheckDuplicate(keys, claimText, nowMs) ==
  IF normalizeClaimKey(claimText) = <<>> THEN [duplicate |-> FALSE, keys |-> keys]
  ELSE CheckDuplicate(pruneRecentClaimKeys(keys, nowMs), normalizeClaimKey(claimText), nowMs)

DetectedEvent(p, claimId, claimText, nowMs) ==
  ResearchEvent("claim.detected", p, claimId) @@ [claim |-> claimText, at |-> nowMs]

\* one round of the claims loop of handleTranscriptionChunk
CandidateChecked(p, detected, nowMs, seen) ==
  IF seen.duplicate THEN [p EXCEPT !.recentClaimKeys = seen.keys]
  ELSE queueResearchClaim(
         emit([p EXCEPT !.recentClaimKeys = seen.keys, !.claimIndex = @ + 1],
              DetectedEvent(p, p.claimIndex + 1, detected.text, nowMs)),
         [claimId |-> p.claimIndex + 1, claimCategory |-> detected.category])

\* the claims loop of handleTranscriptionChunk over the candidates detectClaims
\* returned for one transcript
RECURSIVE detectCandidates(_, _, _)
detectCandidates(p, candidates, nowMs) ==
  IF candidates = <<>> \/ ~p.created THEN p
  ELSE detectCandidates(
         CandidateChecked(p, Head(candidates), nowMs,
                          markClaimSeenAndCheckDuplicate(p.recentClaimKeys,
                                                         Head(candidates).text, nowMs)),
         Tail(candidates), nowMs)

\* ---- inputs
FreshBatch == 2
MaxDetected == 8
MaxNowMs == 1800000
RunStartMs == 1000
ClockSteps == {0, 300000, 600000}

RECURSIVE Digits(_)
Digits(n) == IF n < 10 THEN <<Digit[n + 1]>> ELSE Append(Digits(n \div 10), Digit[(n % 10) + 1])

Candidate(chars) == [text |-> chars, category |-> "general"]

\* the same sentence as two transcripts spell it
TaxesRose == <<"T", "a", "x", "e", "s", " ", "r", "o", "s", "e", " ", "5", "%", ".">>
TaxesRoseAgain == <<"t", "a", "x", "e", "s", ",", " ", " ", "R", "o", "s", "e", " ", "5">>

\* sentences nobody said before in the run
FreshCandidates(from, size) ==
  [i \in 1..size |-> Candidate(<<"n", "o", ".", " ">> \o Digits(from + i))]

TranscriptKinds == {"taxes_rose", "taxes_rose_again", "fresh"}

CandidatesOf(r, kind) ==
  CASE kind = "taxes_rose" -> <<Candidate(TaxesRose)>>
    [] kind = "taxes_rose_again" -> <<Candidate(TaxesRoseAgain)>>
    [] kind = "fresh" -> FreshCandidates(pipelines[r].claimIndex, FreshBatch)

Clock(r) == IF runLog[r].nowMs = 0 THEN RunStartMs ELSE runLog[r].nowMs

DetectedIn(events) == SelectSeq(events, LAMBDA e : e.type = "claim.detected")

RECURSIVE LogDetections(_, _)
LogDetections(f, events) ==
  IF events = <<>> THEN f
  ELSE LogDetections(
         [k \in DOMAIN f \cup {normalizeClaimKey(Head(events).claim)} |->
            IF k = normalizeClaimKey(Head(events).claim) THEN Head(events).at ELSE f[k]],
         Tail(events))

\* handleTranscriptionChunk from claim detection on, for a transcript whose
\* complete sentences give these candidates, Date.now() being the clock
DetectCandidatesCommit(r, q, candidates, nowMs) ==
  /\ pipelines' = [pipelines EXCEPT ![r] = [q EXCEPT !.out = <<>>]]
  /\ pipeEmitted' = q.out
  /\ ServerAfter(onPipelineEvents([activePipeline |-> activePipeline,
                                   currentRunId |-> currentRunId], q.out))
  /\ runLog' = [runLog EXCEPT ![r] =
                  [LogEvents(@, q.out) EXCEPT
                     !.nowMs = nowMs,
                     !.lastDetectedAt = LogDetections(@, DetectedIn(q.out))]]
  /\ request' = [action |-> "detect_claims", runId |-> r, attempt |-> NullInt,
                 nowMs |-> nowMs,
                 keys |-> {normalizeClaimKey(candidates[i].text) : i \in DOMAIN candidates}]
  /\ response' = NoResponse
  /\ UNCHANGED <<claims, packagesByClaim, nextPackageId, jobsByClaimId, jobsByRenderJobId,
                 jobsByIdempotencyKey, research, claimPayload, emitted, outBefore,
                 approvalVersion, history, sseVars>>

DetectCandidates(r, kind, elapsedMs) ==
  /\ Created(r)
  /\ pipelines[r].running /\ ~pipelines[r].aborted
  /\ pipelines[r].claimIndex + Len(CandidatesOf(r, kind)) <= MaxDetected
  /\ Clock(r) + elapsedMs <= MaxNowMs
  /\ DetectCandidatesCommit(r, detectCandidates(pipelines[r], CandidatesOf(r, kind),
                                                Clock(r) + elapsedMs),
                            CandidatesOf(r, kind), Clock(r) + elapsedMs)

NextDedupe ==
  \/ Start("valid", "spawned", FALSE, 0, 3, 1)
  \/ Stop
  \/ \E r \in RunIds, kind \in TranscriptKinds, elapsedMs \in ClockSteps :
       DetectCandidates(r, kind, elapsedMs)

SpecDedupe == Init /\ [][NextDedupe]_vars

DedupeStep == request'.action = "detect_claims"

DetectedKeys ==
  {normalizeClaimKey(DetectedIn(pipeEmitted')[i].claim) : i \in DOMAIN DetectedIn(pipeEmitted')}

\* C33: within a run a candidate whose normalized key was accepted
\* less than 10 minutes earlier is dropped, so no two claim.detected events of
\* the run carry the same normalized text less than 10 minutes apart, and the
\* dedupe map never holds more than 1000 keys.
C33_NoRepeatWithinWindow ==
  /\ [](\A r \in RunIds :
          Created(r) => Len(pipelines[r].recentClaimKeys) <= CLAIM_RECENT_DEDUPE_MAX)
  /\ [][DedupeStep =>
          LET r == request'.runId
              last == runLog[r].lastDetectedAt
          IN /\ Cardinality(DetectedKeys) = Len(DetectedIn(pipeEmitted'))
             /\ \A k \in DetectedKeys :
                  k \in DOMAIN last
                    => request'.nowMs - last[k] >= CLAIM_RECENT_DEDUPE_TTL_MS]_vars

\* --------------------------------------- specification: transcript segments
\* One run with reconnection enabled whose transcripts are texts: short and
\* long, with and without a sentence end.
Repeated(ch, n) == [i \in 1..n |-> ch]

TranscriptTexts ==
  {<<"s", "o">>,
   <<"n", "o", ".">>,
   <<"n", "o", ".", " ", "s", "o">>,
   <<".", "5", " ", "s", "o">>,
   Repeated("o", TRANSCRIPT_FLUSH_MAX_CHARS),
   Repeated("o", TRANSCRIPT_FLUSH_MAX_CHARS - 3) \o <<".", " ", "s", "o">>}

\* transcribePcmChunk returned this text
TranscriptAccepted(r, chunkNo, text) ==
  /\ chunkNo \in Calls(r)
  /\ ~pipelines[r].aborted
  /\ PipeCommit(r,
       drainTranscriptionLoop(
         TranscriptHandled([pipelines[r] EXCEPT !.calls = @ \ {chunkNo}],
                           [text |-> text, claims |-> <<>>])),
       [action |-> "transcription_returns", runId |-> r, attempt |-> NullInt,
        text |-> text])

NextTranscript ==
  \/ Start("valid", "spawned", TRUE, 0, 3, 1)
  \/ Stop
  \/ \E r \in RunIds, stage \in {"yt-dlp", "ffmpeg"} : ProcessError(r, 1, stage)
  \/ \E r \in RunIds : ReconnectTimer(r, "spawned", MaxIngestAttempts)
  \/ \E r \in RunIds, a \in 1..MaxIngestAttempts : AudioData(r, a, chunkBytes, MaxChunks)
  \/ \E r \in RunIds, chunkNo \in 0..MaxChunks, text \in TranscriptTexts :
       TranscriptAccepted(r, chunkNo, text)
  \/ \E r \in RunIds : FlushTimer(r)

SpecTranscript == Init /\ [][NextTranscript]_vars

\* the texts of the transcript.segment events of run r among events, in order
RECURSIVE SegmentText(_, _)
SegmentText(events, r) ==
  IF events = <<>> THEN <<>>
  ELSE (IF Head(events).type = "transcript.segment" /\ Head(events).runId = r
          THEN Head(events).text ELSE <<>>) \o SegmentText(Tail(events), r)

Buffered(r) == pipelines[r].transcriptAccumulator

FlushedWhole(r) ==
  /\ \E i \in DOMAIN pipeEmitted' :
       /\ pipeEmitted'[i].type = "transcript.segment"
       /\ pipeEmitted'[i].text = Buffered(r)
  /\ pipelines'[r].transcriptAccumulator = <<>>

\* C34: when the transcript flush timer fires while the buffer is non-empty, a
\* transcript.segment with the buffered text is emitted and the buffer is
\* emptied, whatever the buffer holds; the forced flush of a stop or of a
\* reconnect emits all buffered text as well.
C34_FlushEmitsBuffer ==
  [][\A r \in RunIds :
       (Created(r) /\ pipelines[r].running /\ Buffered(r) # <<>> /\ request'.runId = r
          /\ request'.action \in {"flush_timer", "stop", "reconnect_timer"})
         => FlushedWhole(r)]_vars

Squash(text) == SelectSeq(text, LAMBDA ch : ch # " ")

AcceptedNow(r) ==
  IF request'.action = "transcription_returns" /\ request'.runId = r
    THEN request'.text ELSE <<>>

\* C40: transcript flushing conserves text.  Every step of a run, spaces
\* aside, leaves in the segments it emits and in the buffer exactly what the
\* buffer held before and the transcript it accepted, in that order; so the
\* segments emitted so far followed by the buffer are the accepted transcripts
\* in order, nothing lost and nothing twice.
C40_TextConserved ==
  [][\A r \in RunIds :
       Created(r)
         => Squash(SegmentText(pipeEmitted', r) \o pipelines'[r].transcriptAccumulator)
              = Squash(Buffered(r) \o AcceptedNow(r))]_vars

\* C35: a stored claim whose output is not approved (pending or rejected) has
\* no package, no render job and no artifact on its snapshot; in particular
\* rejecting an approved claim leaves none.
C35_NoOutputUnlessApproved ==
  \A c \in ClaimIds :
    (claims[c].exists /\ claims[c].outputApprovalState # "approved")
      => /\ claims[c].outputPackageStatus = "none"
         /\ claims[c].renderStatus = "none"
         /\ claims[c].renderJobId = NullInt
         /\ claims[c].artifactUrl = "null"

\* C36: each of the two subprocesses of a finalized ingest attempt has exited
\* or has been sent a termination signal (teardownAttempt), however the
\* attempt was finalized; so none is left running unsignalled when the next
\* attempt starts or the run stops.
C36_FinalizedAttemptTornDown ==
  \A r \in RunIds :
    Created(r)
      => \A a \in DOMAIN pipelines[r].attempts :
           pipelines[r].attempts[a].finalized
             => /\ pipelines[r].attempts[a].ytdlpClosed
                     \/ pipelines[r].attempts[a].teardownDone
                /\ pipelines[r].attempts[a].ffmpegClosed
                     \/ pipelines[r].attempts[a].teardownDone

ReconnectEventsOf(r) ==
  SelectSeq(pipeEmitted', LAMBDA e : e.runId = r /\ e.type \in {"pipeline.reconnect_scheduled",
                                                               "pipeline.reconnect_started"})

\* C37: once a run has emitted pipeline.stopped no ingest attempt is spawned
\* for it and it emits neither pipeline.reconnect_scheduled nor
\* pipeline.reconnect_started, whichever timer fires or process callback
\* arrives after the stop.
C37_NoIngestAfterStopped ==
  [][\A r \in RunIds :
       (Created(r) /\ runLog[r].stopped >= 1)
         => /\ Len(pipelines'[r].attempts) = Len(pipelines[r].attempts)
            /\ ReconnectEventsOf(r) = <<>>
            /\ ~pipelines'[r].reconnectTimer]_vars

\* the close-wait timer of the last attempt fired after the run had stopped
C37_Witness ==
  \E r \in RunIds :
    /\ runLog[r].stopped = 1
    /\ request.action = "close_timer"
    /\ request.runId = r
    /\ pipeEmitted = <<>>
    /\ \E a \in DOMAIN pipelines[r].attempts : pipelines[r].attempts[a].finalized


\* ------------------------------------ specification: research, fair providers
\* The research specification in which every provider call a worker awaits
\* eventually returns or throws.
ProviderAnswers(r, claimId) == ProviderReturns(r, claimId) \/ ProviderThrows(r, claimId)

SpecResearchFair ==
  SpecResearch /\ \A r \in RunIds, claimId \in 1..MaxClaims : WF_vars(ProviderAnswers(r, claimId))

QueuedIds(q) ==
  IF q.created THEN {q.researchQueue[i].claimId : i \in DOMAIN q.researchQueue} ELSE {}

WorkerIds(q) == IF q.created THEN {w.claimId : w \in q.workers} ELSE {}

InResearch(q, claimId) == claimId \in QueuedIds(q) \cup WorkerIds(q)

ClaimEvents(events, r, type, claimId) ==
  SelectSeq(events, LAMBDA e : e.runId = r /\ e.type = type /\ e.claimId = claimId)

\* one step of claim claimId of run r through the research queue
ResearchStep(r, claimId) ==
  LET p == pipelines[r]
      q == pipelines'[r]
      detected == ClaimEvents(pipeEmitted', r, "claim.detected", claimId)
      researching == ClaimEvents(pipeEmitted', r, "claim.researching", claimId)
      updated == ClaimEvents(pipeEmitted', r, "claim.updated", claimId)
  IN /\ detected # <<>> => p.created /\ claimId > p.claimIndex /\ InResearch(q, claimId)
     /\ claimId \in QueuedIds(q) \ QueuedIds(p) => detected # <<>>
     /\ claimId \in WorkerIds(q) \ WorkerIds(p) =>
          /\ detected # <<>> \/ claimId \in QueuedIds(p)
          /\ Len(researching) = 1
     /\ researching # <<>> => claimId \in WorkerIds(q) \ WorkerIds(p)
     /\ updated # <<>> =>
          /\ Len(updated) = 1
          /\ claimId \in WorkerIds(p)
          /\ ~InResearch(q, claimId)
     /\ InResearch(p, claimId) /\ ~InResearch(q, claimId) =>
          updated # <<>> \/ isAborted(q)

UpdatedNow(r, claimId) == ClaimEvents(pipeEmitted, r, "claim.updated", claimId) # <<>>

RendererAnswers(jobId) == RenderReturns(jobId) \/ RenderThrows(jobId)

SpecRenderFair ==
  SpecRender /\ \A jobId \in 1..MaxJobs : WF_vars(RendererAnswers(jobId)) /\ WF_vars(RenderRetry(jobId))

JobStatus(jobId) ==
  IF jobId \in DOMAIN jobsByRenderJobId THEN jobsByRenderJobId[jobId].status ELSE "null"

\* C39: every render job queueRender created eventually has status ready or
\* failed, also a job that a forced render of the same claim overtook while
\* it was rendering; none stays queued or rendering forever.
C39_EveryJobSettles ==
  \A jobId \in 1..MaxJobs :
    (JobStatus(jobId) \in {"queued", "rendering"}) ~> (JobStatus(jobId) \in {"ready", "failed"})

====
